---- MODULE Spec2Model ----
(***************************************************************************)
(* Residual program materialization of the partial evaluator:              *)
(*   - LazyObjectsSerializer (lazy materialization strategy)               *)
(*   - ResidualFunctions.spliceFunctions (function instance materializer)  *)
(* Each component has its own specification over the shared variables.     *)
(***************************************************************************)
EXTENDS Integers, Sequences, FiniteSets, TLC

(***************************************************************************)
(* Bounds of the model                                                     *)
(***************************************************************************)
NumObjs == 2

Objs == 1..NumObjs

(***************************************************************************)
(* Generic helpers                                                         *)
(***************************************************************************)
Range(s) == {s[i] : i \in 1..Len(s)}

\* the value `undefined` of a body reference (parentBody: undefined)
NoBody == 0
\* the emitter's initial body (the main generator body)
MainBody == 1

LAZY_OBJECTS_SERIALIZER_BODY_TYPE == "LazyObjectInitializer"

VARIABLES
  \* ---- LazyObjectsSerializer ----
  temporalAlias,            \* obj -> BOOLEAN: obj.temporalAlias !== undefined
  _lazyObjectIdSeed,        \* next lazy id
  _valueLazyIds,            \* Map<ObjectValue, number>: a function on the objects that have an id
  firstLazyId,              \* history: obj -> the id its first request returned
  _lazyObjectInitializers,  \* ordered Map<ObjectValue, SerializedBody>: seq of [obj, body]
  emitterBody,              \* emitter._body: the current body
  bodies,                   \* heap of SerializedBody records, by body id
  frames,                   \* call stack: pending endEmitting calls with their oldBody
  serialized,               \* obj -> "none" | "eager" | "emitting" | "lazy"
  created,                  \* obj -> id passed to createLazyObject(id), 0 = none
  identLog,                 \* the last getSerializeObjectIdentifier call and its result
  lazyPc,                   \* "serializing" | "done"
  prelude,                  \* this.prelude
  \* ---- ResidualFunctions: inputs of the constructor and of spliceFunctions ----
  residualFunctionInstances,   \* Map<FunctionValue, FunctionInstance>: the keys in iteration order
  instanceOf,                  \* FunctionValue -> its FunctionInstance record
  residualFunctionInfos,       \* code block -> FunctionInfo (with the block's start/end/tag/params)
  residualClassMethodInstances,\* Map<FunctionValue, ClassMethodInstance>: a function on its keys
  additionalFunctionValueInfos,\* Map<FunctionValue, AdditionalFunctionInfo>: the keys in iteration order
  modifiedBindings,            \* additional function -> its funcInfo.modifiedBindings (a sequence)
  additionalFunctionValueNestedFunctions, \* Set<FunctionValue>
  functionPrototypes,          \* Map<FunctionValue, prototypeId>: the set of its keys
  firstFunctionUsages,         \* Map<FunctionValue, BodyReference>: a function on its keys
  initializerStatements,       \* functions for which residualFunctionInitializers has a statement
  referentializationState,     \* referentializer.referentializationState: the keys in order
  \* ---- ResidualFunctions: state ----
  functionInstances,           \* this.functionInstances
  functions,                   \* this.functions: ordered Map<code block, instances>, seq of [code, instances]
  classes,                     \* this.classes: class prototype -> class node
  rewrittenAdditionalFunctions,\* Map<FunctionValue, statements>: seq of [fv, body] in iteration order
  bodyEntries,                 \* insertionPoint.body.entries of the generator body
  pc,                          \* position inside spliceFunctions
  error,                       \* "none" | "invariant" | "FatalError"
  functionEntries,             \* the sorted entries of this.functions
  strictFunctionBodies,        \* result: nodes of strict functions / classes
  unstrictFunctionBodies,      \* result: nodes of the other functions / classes
  astNodes,                    \* heap of the function / class / call nodes built so far
  functionBodies,              \* Map<FunctionInstance, statements>: a function on its keys
  funcNodes,                   \* ordered Map<FunctionValue, function expression>: seq of [fv, node]
  additionalFunctionPreludes,  \* Map<FunctionValue, statements>: a function on its keys
  additionalFunctionModifiedBindingsSegment, \* Map<FunctionValue, statements>: a function on its keys
  factoryFunctionInfos,        \* Map<uniqueOrderedTag, FactoryFunctionInfo>: a function on its keys
  generatedNames,              \* number of names the factoryNameGenerator has produced
  emitted                      \* history: function value -> the emission kinds it went through

lazyVars == <<temporalAlias, _lazyObjectIdSeed, _valueLazyIds, firstLazyId, _lazyObjectInitializers,
              emitterBody, bodies, frames, serialized, created, identLog,
              lazyPc>>

rfInputs == <<residualFunctionInstances, instanceOf, residualFunctionInfos,
              residualClassMethodInstances, additionalFunctionValueInfos, modifiedBindings,
              additionalFunctionValueNestedFunctions, functionPrototypes, firstFunctionUsages,
              initializerStatements, referentializationState>>

rfState == <<functionInstances, functions, classes, rewrittenAdditionalFunctions, bodyEntries,
             pc, error, functionEntries, strictFunctionBodies,
             unstrictFunctionBodies, astNodes, functionBodies, funcNodes,
             additionalFunctionPreludes, additionalFunctionModifiedBindingsSegment,
             factoryFunctionInfos, generatedNames, emitted>>

rfVars == <<rfInputs, rfState>>

vars == <<lazyVars, prelude, rfVars>>

(***************************************************************************)
(* ResidualFunctions: values                                               *)
(***************************************************************************)
NumFuncs == 3
BodyLen == 2

\* shouldInline = bodySize <= 30
InlineBodySizeLimit == 30

FV == 1..NumFuncs
Blocks == {1, 2}

\* identifiers and expressions: [t, n]
Undefined == [t |-> "undefined", n |-> 0]
Loc(f) == [t |-> "loc", n |-> f]                  \* locationService.getLocation(f)
FactoryName(k) == [t |-> "factory", n |-> k]      \* factoryNameGenerator.generate(..)
PrototypeId(f) == [t |-> "prototype", n |-> f]    \* functionPrototypes.get(f)
ScopeName(sc) == [t |-> "scopeName", n |-> sc]    \* t.identifier(scopeName)
ScopeIdLiteral(sc) == [t |-> "numericLiteral", n |-> sc]  \* t.numericLiteral(scope.id)
ParamName(name) == [t |-> "param", n |-> name]    \* t.identifier(key) of a factory parameter
ThisExpression == [t |-> "this", n |-> 0]
NullExpression == [t |-> "null", n |-> 0]
Slot(sc) == [t |-> "slot", n |-> sc]              \* an access to a slot of captured scope sc
Direct(v) == [t |-> "direct", n |-> v]            \* the serialized value v itself

\* insertion points: a BodyReference into the generator body, or undefined
NoInsertionPoint == [defined |-> FALSE, index |-> 0]
BodyReference(i) == [defined |-> TRUE, index |-> i]

\* statements: [type, id, init, fv]
Stmt(type, id, init, fv) == [type |-> type, id |-> id, init |-> init, fv |-> fv]

\* the entries the generator body holds before spliceFunctions
OriginalEntries == [k \in 1..BodyLen |-> Stmt("Entry", Undefined, 0, k)]

\* the statements of a rewritten additional function as the caller passes them
RewrittenBody(f) == <<Stmt("RewrittenStatement", Undefined, 0, f)>>

(***************************************************************************)
(* Maps                                                                    *)
(***************************************************************************)
\* getOrDefault(map, key, () => value): the map afterwards
GetOrDefault(m, k, d) == IF k \in DOMAIN m THEN m ELSE (k :> d) @@ m

\* Array.prototype.push.apply(getOrDefault(map, key, () => []), stmts)
MapPush(m, k, stmts) == [GetOrDefault(m, k, <<>>) EXCEPT ![k] = @ \o stmts]

\* Map.set on an ordered map kept as a sequence of [fv, node]
OrderedSet(m, k, v) ==
  IF \E i \in 1..Len(m) : m[i].fv = k
  THEN [i \in 1..Len(m) |-> IF m[i].fv = k THEN [fv |-> k, node |-> v] ELSE m[i]]
  ELSE Append(m, [fv |-> k, node |-> v])

\* array.splice(index, 0, ...group)
Splice(arr, index, group) ==
  LET at == IF index > Len(arr) THEN Len(arr) ELSE index
  IN  SubSeq(arr, 1, at) \o group \o SubSeq(arr, at + 1, Len(arr))

Reverse(arr) == [i \in 1..Len(arr) |-> arr[Len(arr) + 1 - i]]

RECURSIVE SelectSeqBy(_, _)
SelectSeqBy(arr, S) ==
  IF arr = <<>> THEN <<>>
  ELSE (IF Head(arr) \in S THEN <<Head(arr)>> ELSE <<>>) \o SelectSeqBy(Tail(arr), S)

(***************************************************************************)
(* ResidualFunctions: constructor                                          *)
(***************************************************************************)
\* this.addFunctionInstance(instance) for every instance that is no additional function
RECURSIVE AddFunctionInstances(_, _, _, _)
AddFunctionInstances(insts, inst, additional, acc) ==
  IF insts = <<>> THEN acc
  ELSE LET f == Head(insts)
           code == inst[f].code
           known == \E i \in 1..Len(acc.functions) : acc.functions[i].code = code
           fns == IF known
                  THEN [i \in 1..Len(acc.functions) |->
                          IF acc.functions[i].code = code
                          THEN [code |-> code, instances |-> Append(acc.functions[i].instances, f)]
                          ELSE acc.functions[i]]
                  ELSE Append(acc.functions, [code |-> code, instances |-> <<f>>])
       IN  IF f \in additional
           THEN AddFunctionInstances(Tail(insts), inst, additional, acc)
           ELSE AddFunctionInstances(Tail(insts), inst, additional,
                  [functionInstances |-> Append(acc.functionInstances, f), functions |-> fns])

\* a mutant of Constructor: the additional functions are added as well
Constructor_KeepsAdditional(insts, inst, additional) ==
  AddFunctionInstances(insts, inst, {}, [functionInstances |-> <<>>, functions |-> <<>>])

\* the constructor, lines 90-93
Constructor(insts, inst, additional) ==
  AddFunctionInstances(insts, inst, additional, [functionInstances |-> <<>>, functions |-> <<>>])

(***************************************************************************)
(* ResidualFunctions: helpers of spliceFunctions                           *)
(***************************************************************************)
\* a mutant of ShouldUseFactoryFunction: instances.length > 2 instead of > 1
ShouldUseFactoryFunction_MoreThanTwo(I, funcBody, instances) ==
  LET info == I.residualFunctionInfos[funcBody]
      shouldInline ==
        IF Len(I.instanceOf[instances[1]].scopeInstances) > 0 THEN FALSE
        ELSE IF info.start # 0 /\ info.end # 0
             THEN info.end - info.start <= InlineBodySizeLimit
             ELSE TRUE
  IN  ~shouldInline /\ Len(instances) > 2 /\ ~info.usesArguments

\* a mutant of ShouldUseFactoryFunction: any instance with a captured scope prevents
\* inlining, and the extent counts whatever the offsets are
ShouldUseFactoryFunction_AnyScope(I, funcBody, instances) ==
  LET info == I.residualFunctionInfos[funcBody]
      shouldInline ==
        IF \E j \in 1..Len(instances) : Len(I.instanceOf[instances[j]].scopeInstances) > 0
        THEN FALSE
        ELSE info.end - info.start <= InlineBodySizeLimit
  IN  ~shouldInline /\ Len(instances) > 1 /\ ~info.usesArguments

\* _shouldUseFactoryFunction(funcBody, instances); start/end 0 stand for a falsy offset
ShouldUseFactoryFunction(I, funcBody, instances) ==
  LET info == I.residualFunctionInfos[funcBody]
      shouldInline ==
        IF Len(I.instanceOf[instances[1]].scopeInstances) > 0 THEN FALSE
        ELSE IF info.start # 0 /\ info.end # 0
             THEN info.end - info.start <= InlineBodySizeLimit
             ELSE TRUE
  IN  ~shouldInline /\ Len(instances) > 1 /\ ~info.usesArguments

\* getReplacement(name, value)
getReplacement(serializedValue, value) == [node |-> serializedValue, value |-> value]

\* a mutant of GetIdentifierReplacements: the value is passed whatever `referentialized` says
GetIdentifierReplacements_KeepsValue(I, funcBody, residualFunctionBindings) ==
  LET unbound == I.residualFunctionInfos[funcBody].unbound
      kept == {name \in Range(unbound) :
                 /\ name \in DOMAIN residualFunctionBindings
                 /\ ~(/\ ~residualFunctionBindings[name].declarativeEnvironmentRecord
                      /\ residualFunctionBindings[name].value = 0)}
  IN  [name \in kept |->
         getReplacement(residualFunctionBindings[name].serializedValue,
                        residualFunctionBindings[name].value)]

\* _getIdentifierReplacements(funcBody, residualFunctionBindings): the replacement of the
\* occurrences of every unbound name that has one; value 0 stands for undefined
GetIdentifierReplacements(I, funcBody, residualFunctionBindings) ==
  LET unbound == I.residualFunctionInfos[funcBody].unbound
      kept == {name \in Range(unbound) :
                 /\ name \in DOMAIN residualFunctionBindings
                 /\ ~(/\ ~residualFunctionBindings[name].declarativeEnvironmentRecord
                      /\ residualFunctionBindings[name].value = 0)}
  IN  [name \in kept |->
         getReplacement(residualFunctionBindings[name].serializedValue,
                        IF residualFunctionBindings[name].referentialized
                        THEN 0
                        ELSE residualFunctionBindings[name].value)]

\* AreSameResidualBinding(realm, x, y)
AreSameResidualBinding(x, y) ==
  \/ x.serializedValue = y.serializedValue
  \/ (x.value # 0 /\ x.value = y.value)

\* referentializer.getReferentializedScopeInitialization(scope, indexExpression)
getReferentializedScopeInitialization(scope, indexExpression) ==
  <<Stmt("ScopeInitialization", indexExpression, 0, scope)>>

RECURSIVE ScopeInitializations(_, _)
ScopeInitializations(scopes, byName) ==
  IF scopes = <<>> THEN <<>>
  ELSE getReferentializedScopeInitialization(
         Head(scopes), IF byName THEN ScopeName(Head(scopes)) ELSE ScopeIdLiteral(Head(scopes)))
       \o ScopeInitializations(Tail(scopes), byName)

\* a node of the output: function expression, class expression, class method or call
Node(type, role, f, code, params, body) ==
  [type |-> type, role |-> role, fv |-> f, code |-> code, params |-> params, body |-> body,
   replacements |-> <<>>, bindingOwner |-> <<>>, argNames |-> <<>>, args |-> <<>>,
   callee |-> Undefined]

Fail(s, kind) == [s EXCEPT !.error = kind, !.pc = "failed"]

\* strictFunctionBodies.push(node) or unstrictFunctionBodies.push(node)
PushFunctionBody(s, strict, node) ==
  IF strict THEN [s EXCEPT !.strictFunctionBodies = Append(@, node)]
  ELSE [s EXCEPT !.unstrictFunctionBodies = Append(@, node)]

LogEmitted(s, f, kind) == [s EXCEPT !.emitted[f] = Append(@, kind)]

\* defineFunction(instance, funcId, funcOrClassNode)
DefineFunction(I, s, f, funcId, node) ==
  LET instance == I.instanceOf[f]
      s1 == IF Len(instance.initializationStatements) > 0
            THEN [s EXCEPT !.functionBodies = MapPush(@, f, instance.initializationStatements)]
            ELSE s
      decl == <<Stmt("VariableDeclaration", funcId, node, f)>> \o
              (IF f \in I.functionPrototypes
               THEN <<Stmt("VariableDeclaration", PrototypeId(f), 0, f)>>
               ELSE <<>>)
      additionalFunction == instance.containingAdditionalFunction
  IN  IF s.astNodes[node].type = "FunctionExpression"
      THEN LET s2 == [s1 EXCEPT !.funcNodes = OrderedSet(@, f, node)]
           IN  IF additionalFunction # 0
               THEN [s2 EXCEPT !.additionalFunctionPreludes = MapPush(@, additionalFunction, decl)]
               ELSE [s2 EXCEPT !.prelude = @ \o decl]
      ELSE [s1 EXCEPT !.functionBodies = MapPush(@, f, decl)]

\* a mutant of GetOrCreateClassNode: a class node is created at every call
GetOrCreateClassNode_AlwaysNew(s, classPrototype) ==
  [s EXCEPT !.astNodes = Append(@, Node("ClassExpression", "class", 0, 0, <<>>, <<>>)),
            !.classes = (classPrototype :> (Len(s.astNodes) + 1)) @@ @]

\* _getOrCreateClassNode(classPrototype): the state afterwards; the node is s.classes[classPrototype]
GetOrCreateClassNode(s, classPrototype) ==
  IF classPrototype \in DOMAIN s.classes THEN s
  ELSE [s EXCEPT !.astNodes = Append(@, Node("ClassExpression", "class", 0, 0, <<>>, <<>>)),
                 !.classes = (classPrototype :> (Len(s.astNodes) + 1)) @@ @]

\* funcOrClassNode.body.body.unshift(classMethod) for a constructor, push otherwise
AddClassMethod(s, classNode, isConstructor, method) ==
  [s EXCEPT !.astNodes[classNode].body = IF isConstructor THEN <<method>> \o @ ELSE Append(@, method)]

\* the original statements of a code block, as one statement
OriginalBody(funcBody) == Stmt("OriginalBody", Undefined, 0, funcBody)

(***************************************************************************)
(* spliceFunctions: Process Additional Functions (lines 349-415)           *)
(***************************************************************************)
ProcessAdditionalFunction(I, s, f) ==
  LET instance == I.instanceOf[f]
      params == I.residualFunctionInfos[instance.code].params
      rewrittenBody == \E i \in 1..Len(s.rewrittenAdditionalFunctions) :
                          s.rewrittenAdditionalFunctions[i].fv = f
      n == Len(s.astNodes) + 1
  IN  IF ~rewrittenBody THEN Fail(s, "invariant")
      ELSE IF f \in DOMAIN I.residualClassMethodInstances
      THEN LET cm == I.residualClassMethodInstances[f]
               isConstructor == cm.methodType = "constructor"
               s1 == GetOrCreateClassNode(s, cm.classPrototype)
               classNode == s1.classes[cm.classPrototype]
               m == Len(s1.astNodes) + 1
               s2 == [s1 EXCEPT !.astNodes =
                        Append(@, Node("ClassMethod", "root", f, instance.code, params, <<>>))]
               s3 == AddClassMethod(s2, classNode, isConstructor,
                                    Stmt("ClassMethod", Undefined, m, f))
           IN  IF ~isConstructor THEN LogEmitted(s3, f, "root")
               ELSE LogEmitted(
                      DefineFunction(I, PushFunctionBody(s3, instance.strict, classNode),
                                     f, Loc(f), classNode), f, "root")
      ELSE LET s1 == [s EXCEPT !.astNodes =
                        Append(@, Node("FunctionExpression", "root", f, instance.code, params, <<>>))]
           IN  LogEmitted(
                 DefineFunction(I, PushFunctionBody(s1, instance.strict, n), f, Loc(f), n),
                 f, "root")

(***************************************************************************)
(* _generateFactoryFunctionInfos (lines 212-241)                           *)
(***************************************************************************)
RECURSIVE GenerateFactoryFunctionInfos(_, _, _)
GenerateFactoryFunctionInfos(I, s, i) ==
  IF i > Len(s.functions) \/ s.error # "none" THEN s
  ELSE LET functionBody == s.functions[i].code
           instances == s.functions[i].instances
           useFactory == ShouldUseFactoryFunction(I, functionBody, instances)
           hasRewritten == \E j \in 1..Len(instances) :
                             \E k \in 1..Len(s.rewrittenAdditionalFunctions) :
                               s.rewrittenAdditionalFunctions[k].fv = instances[j]
           functionUniqueTag == I.residualFunctionInfos[functionBody].uniqueOrderedTag
           factoryId == IF useFactory THEN FactoryName(s.generatedNames + 1)
                        ELSE Loc(instances[1])
           anyContainingAdditionalFunction ==
             \E j \in 1..Len(instances) : I.instanceOf[instances[j]].containingAdditionalFunction # 0
       IN  IF useFactory /\ hasRewritten THEN Fail(s, "invariant")
           ELSE IF functionUniqueTag = 0 THEN Fail(s, "invariant")
           ELSE GenerateFactoryFunctionInfos(I,
                  [s EXCEPT !.generatedNames = IF useFactory THEN @ + 1 ELSE @,
                            !.factoryFunctionInfos =
                               (functionUniqueTag :>
                                  [factoryId |-> factoryId, functionInfo |-> functionBody,
                                   anyContainingAdditionalFunction |-> anyContainingAdditionalFunction])
                               @@ @],
                  i + 1)

\* _sortFunctionByOriginalOrdering: a stable sort by ascending uniqueOrderedTag
RECURSIVE InsertByTag(_, _, _)
InsertByTag(I, sorted, e) ==
  IF sorted = <<>> THEN <<e>>
  ELSE IF I.residualFunctionInfos[e.code].uniqueOrderedTag
            < I.residualFunctionInfos[Head(sorted).code].uniqueOrderedTag
       THEN <<e>> \o sorted
       ELSE <<Head(sorted)>> \o InsertByTag(I, Tail(sorted), e)

\* a mutant of SortFunctionByOriginalOrdering: the entries stay in map order
SortFunctionByOriginalOrdering_Unsorted(I, entries) == entries

RECURSIVE SortFunctionByOriginalOrdering(_, _)
SortFunctionByOriginalOrdering(I, entries) ==
  IF entries = <<>> THEN <<>>
  ELSE InsertByTag(I, SortFunctionByOriginalOrdering(I, SubSeq(entries, 1, Len(entries) - 1)),
                   entries[Len(entries)])

(***************************************************************************)
(* spliceFunctions: naiveProcessInstances (lines 435-524)                   *)
(***************************************************************************)
NaiveProcessInstance(I, s, funcBody, f) ==
  LET instance == I.instanceOf[f]
      params == I.residualFunctionInfos[funcBody].params
      replacements == GetIdentifierReplacements(I, funcBody, instance.residualFunctionBindings)
      owners == [name \in DOMAIN replacements |-> f]
  IN  IF f \in DOMAIN I.residualClassMethodInstances
      THEN LET cm == I.residualClassMethodInstances[f]
               isConstructor == cm.methodType = "constructor"
               s1 == GetOrCreateClassNode(s, cm.classPrototype)
               classNode == s1.classes[cm.classPrototype]
               m == Len(s1.astNodes) + 1
               method == [Node("ClassMethod", "naive", f, funcBody, params, <<OriginalBody(funcBody)>>)
                            EXCEPT !.replacements = replacements, !.bindingOwner = owners]
               s2 == IF ~isConstructor \/ ~instance.hasEmptyConstructor
                     THEN AddClassMethod([s1 EXCEPT !.astNodes = Append(@, method)], classNode,
                                         isConstructor, Stmt("ClassMethod", Undefined, m, f))
                     ELSE s1
           IN  IF ~isConstructor THEN LogEmitted(s2, f, "naive")
               ELSE LogEmitted(
                      DefineFunction(I, PushFunctionBody(s2, instance.strict, classNode),
                                     f, Loc(f), classNode), f, "naive")
      ELSE LET n == Len(s.astNodes) + 1
               scopeInitialization == ScopeInitializations(instance.scopeInstances, FALSE)
               node == [Node("FunctionExpression", "naive", f, funcBody, params,
                             scopeInitialization \o <<OriginalBody(funcBody)>>)
                          EXCEPT !.replacements = replacements, !.bindingOwner = owners]
               s1 == [s EXCEPT !.astNodes = Append(@, node)]
           IN  LogEmitted(
                 DefineFunction(I, PushFunctionBody(s1, instance.strict, n), f, Loc(f), n),
                 f, "naive")

RECURSIVE NaiveProcessInstances(_, _, _, _)
NaiveProcessInstances(I, s, funcBody, instancesToSplice) ==
  IF instancesToSplice = <<>> THEN s
  ELSE NaiveProcessInstances(I, NaiveProcessInstance(I, s, funcBody, Head(instancesToSplice)),
                             funcBody, Tail(instancesToSplice))

(***************************************************************************)
(* spliceFunctions: the factory path (lines 530-664)                        *)
(***************************************************************************)
\* a mutant of CompareBindings: the loop stops after the second instance
RECURSIVE CompareBindings_FirstTwo(_, _, _, _)
CompareBindings_FirstTwo(I, name, normalInstances, j) ==
  IF j > Len(normalInstances) \/ j > 2 THEN "same"
  ELSE LET bindings == I.instanceOf[normalInstances[j]].residualFunctionBindings
           lastBinding == I.instanceOf[normalInstances[1]].residualFunctionBindings[name]
       IN  IF name \notin DOMAIN bindings THEN "invariant"
           ELSE IF bindings[name].modified THEN "invariant"
           ELSE IF j > 1 /\ ~AreSameResidualBinding(bindings[name], lastBinding) THEN "different"
           ELSE CompareBindings_FirstTwo(I, name, normalInstances, j + 1)

\* the loop of lines 552-563 for one name: "same", "different" or "invariant"
RECURSIVE CompareBindings(_, _, _, _)
CompareBindings(I, name, normalInstances, j) ==
  IF j > Len(normalInstances) THEN "same"
  ELSE LET bindings == I.instanceOf[normalInstances[j]].residualFunctionBindings
           lastBinding == I.instanceOf[normalInstances[1]].residualFunctionBindings[name]
       IN  IF name \notin DOMAIN bindings THEN "invariant"
           ELSE IF bindings[name].modified THEN "invariant"
           ELSE IF j > 1 /\ ~AreSameResidualBinding(bindings[name], lastBinding) THEN "different"
           ELSE CompareBindings(I, name, normalInstances, j + 1)

\* lines 537-571: factoryNames and the owner of each binding of sameResidualBindings
RECURSIVE PartitionNames(_, _, _, _)
PartitionNames(I, unbound, normalInstances, acc) ==
  IF unbound = <<>> \/ ~acc.ok THEN acc
  ELSE LET name == Head(unbound)
           first == normalInstances[1]
           firstBindings == I.instanceOf[first].residualFunctionBindings
           cmp == CompareBindings(I, name, normalInstances, 1)
       IN  IF name \notin DOMAIN firstBindings THEN [acc EXCEPT !.ok = FALSE]
           ELSE IF firstBindings[name].modified
           THEN PartitionNames(I, Tail(unbound), normalInstances,
                               [acc EXCEPT !.same = (name :> first) @@ @])
           ELSE IF cmp = "invariant" THEN [acc EXCEPT !.ok = FALSE]
           ELSE IF cmp = "different"
           THEN PartitionNames(I, Tail(unbound), normalInstances,
                               [acc EXCEPT !.factoryNames = Append(@, name)])
           ELSE PartitionNames(I, Tail(unbound), normalInstances,
                               [acc EXCEPT !.same = (name :> first) @@ @])

\* lines 612-620: the arguments for the varying names, or a failed invariant
RECURSIVE FlatArgs(_, _, _)
FlatArgs(I, f, factoryNames) ==
  IF factoryNames = <<>> THEN [ok |-> TRUE, args |-> <<>>, hasFunctionArg |-> FALSE]
  ELSE LET bindings == I.instanceOf[f].residualFunctionBindings
           name == Head(factoryNames)
           rest == FlatArgs(I, f, Tail(factoryNames))
       IN  IF name \notin DOMAIN bindings \/ bindings[name].serializedValue = Undefined
           THEN [ok |-> FALSE, args |-> <<>>, hasFunctionArg |-> FALSE]
           ELSE [ok |-> rest.ok,
                 args |-> <<bindings[name].serializedValue>> \o rest.args,
                 hasFunctionArg |-> (bindings[name].value # 0 /\ bindings[name].isFunction)
                                    \/ rest.hasFunctionArg]

\* firstUsage.isNotEarlierThan(insertionPoint)
isNotEarlierThan(firstUsage, insertionPoint) == firstUsage.index >= insertionPoint.index

\* a mutant of NeedsCallWrapper: usesThis is not looked at
NeedsCallWrapper_IgnoresThis(I, f, usesThis, hasFunctionArg) ==
  \/ f \in I.initializerStatements
  \/ hasFunctionArg
  \/ (f \in DOMAIN I.firstFunctionUsages
      /\ ~isNotEarlierThan(I.firstFunctionUsages[f], I.instanceOf[f].insertionPoint))
  \/ f \in I.functionPrototypes

\* lines 627-635: the instance gets a .call wrapper instead of a .bind expression
NeedsCallWrapper(I, f, usesThis, hasFunctionArg) ==
  \/ f \in I.initializerStatements
  \/ usesThis
  \/ hasFunctionArg
  \/ (f \in DOMAIN I.firstFunctionUsages
      /\ ~isNotEarlierThan(I.firstFunctionUsages[f], I.instanceOf[f].insertionPoint))
  \/ f \in I.functionPrototypes

\* lines 607-663, one instance
FactoryStub(I, s, funcBody, f, factoryId, factoryNames) ==
  LET instance == I.instanceOf[f]
      info == I.residualFunctionInfos[funcBody]
      flat == FlatArgs(I, f, factoryNames)
      flatArgs == flat.args \o [k \in 1..Len(instance.scopeInstances) |->
                                  ScopeIdLiteral(instance.scopeInstances[k])]
      n == Len(s.astNodes) + 1
  IN  IF ~flat.ok THEN Fail(s, "invariant")
      ELSE IF ~instance.insertionPoint.defined THEN Fail(s, "invariant")
      ELSE IF NeedsCallWrapper(I, f, info.usesThis, flat.hasFunctionArg)
      THEN IF \E k \in 1..Len(info.params) : info.params[k] # "Identifier"
           THEN Fail(s, "FatalError")
           ELSE LET callArgs == <<ThisExpression>> \o flatArgs \o
                                [k \in 1..Len(info.params) |-> [t |-> "formal", n |-> k]]
                    funcNode == [Node("FunctionExpression", "call", f, funcBody, info.params,
                                      <<Stmt("ReturnStatement", factoryId, 0, f)>>)
                                   EXCEPT !.args = callArgs, !.callee = factoryId,
                                          !.argNames = factoryNames]
                    s1 == [s EXCEPT !.astNodes = Append(@, funcNode)]
                IN  LogEmitted(
                      DefineFunction(I, PushFunctionBody(s1, instance.strict, n), f, Loc(f), n),
                      f, "call")
      ELSE LET funcNode == [Node("CallExpression", "bind", f, funcBody, <<>>, <<>>)
                              EXCEPT !.args = <<NullExpression>> \o flatArgs,
                                     !.callee = factoryId, !.argNames = factoryNames]
               s1 == [s EXCEPT !.astNodes = Append(@, funcNode)]
           IN  LogEmitted(DefineFunction(I, s1, f, Loc(f), n), f, "bind")

RECURSIVE FactoryStubs(_, _, _, _, _, _)
FactoryStubs(I, s, funcBody, instances, factoryId, factoryNames) ==
  IF instances = <<>> \/ s.error # "none" THEN s
  ELSE FactoryStubs(I, FactoryStub(I, s, funcBody, Head(instances), factoryId, factoryNames),
                    funcBody, Tail(instances), factoryId, factoryNames)

\* a mutant of FactoryParams: the scope parameters come first
FactoryParams_ScopesFirst(factoryNames, scopeInstances, params) ==
  [k \in 1..Len(scopeInstances) |-> ScopeName(scopeInstances[k])]
  \o [k \in 1..Len(factoryNames) |-> ParamName(factoryNames[k])]
  \o [k \in 1..Len(params) |-> [t |-> "formal", n |-> k]]

\* lines 573-587: the parameters of the factory function
FactoryParams(factoryNames, scopeInstances, params) ==
  [k \in 1..Len(factoryNames) |-> ParamName(factoryNames[k])]
  \o [k \in 1..Len(scopeInstances) |-> ScopeName(scopeInstances[k])]
  \o [k \in 1..Len(params) |-> [t |-> "formal", n |-> k]]

FactoryProcessInstances(I, s, funcBody, normalInstances) ==
  LET info == I.residualFunctionInfos[funcBody]
      functionUniqueTag == info.uniqueOrderedTag
      part == PartitionNames(I, info.unbound, normalInstances,
                             [ok |-> TRUE, factoryNames |-> <<>>, same |-> <<>>])
      first == I.instanceOf[normalInstances[1]]
      sameResidualBindings ==
        [name \in DOMAIN part.same |-> I.instanceOf[part.same[name]].residualFunctionBindings[name]]
      factoryParams == FactoryParams(part.factoryNames, first.scopeInstances, info.params)
      scopeInitialization == ScopeInitializations(first.scopeInstances, TRUE)
      n == Len(s.astNodes) + 1
  IN  IF functionUniqueTag = 0 \/ functionUniqueTag \notin DOMAIN s.factoryFunctionInfos
      THEN Fail(s, "invariant")
      ELSE IF ~part.ok THEN Fail(s, "invariant")
      ELSE LET factoryId == s.factoryFunctionInfos[functionUniqueTag].factoryId
               factoryNode ==
                 [Node("FunctionExpression", "factory", 0, funcBody, factoryParams,
                       scopeInitialization \o <<OriginalBody(funcBody)>>)
                    EXCEPT !.replacements = GetIdentifierReplacements(I, funcBody, sameResidualBindings),
                           !.bindingOwner = [name \in DOMAIN GetIdentifierReplacements(I, funcBody, sameResidualBindings)
                                               |-> part.same[name]]]
               s1 == [s EXCEPT !.astNodes = Append(@, factoryNode),
                               !.prelude = Append(@, Stmt("VariableDeclaration", factoryId, n, 0))]
               s2 == PushFunctionBody(s1, first.strict, n)
           IN  FactoryStubs(I, s2, funcBody, normalInstances, factoryId, part.factoryNames)

(***************************************************************************)
(* spliceFunctions: Process normal functions, one code block (lines 419-665)*)
(***************************************************************************)
ProcessNormalFunction(I, s, entry) ==
  LET funcBody == entry.code
      nested == {f \in Range(entry.instances) : f \in I.additionalFunctionValueNestedFunctions}
      additionalFunctionNestedInstances == SelectSeqBy(entry.instances, nested)
      normalInstances == SelectSeqBy(entry.instances, Range(entry.instances) \ nested)
      s1 == IF Len(additionalFunctionNestedInstances) > 0
            THEN NaiveProcessInstances(I, s, funcBody, additionalFunctionNestedInstances)
            ELSE s
  IN  IF Len(normalInstances) > 0 /\ ~ShouldUseFactoryFunction(I, funcBody, normalInstances)
      THEN NaiveProcessInstances(I, s1, funcBody, normalInstances)
      ELSE IF Len(normalInstances) > 0
      THEN FactoryProcessInstances(I, s1, funcBody, normalInstances)
      ELSE s1

(***************************************************************************)
(* spliceFunctions: the phases of one run                                  *)
(***************************************************************************)
\* lines 327-347, one additional function: its modified-bindings segment
RECURSIVE ModifiedBindingsSegment(_, _, _, _)
ModifiedBindingsSegment(I, s, funcValue, k) ==
  LET bs == I.modifiedBindings[funcValue]
      residualBinding == bs[k]
      scope == residualBinding.scope
      seen == {bs[j].scope : j \in 1..(k - 1)}
      init == IF residualBinding.referentializationScope # funcValue
              THEN getReferentializedScopeInitialization(scope, ScopeIdLiteral(scope))
              ELSE <<>>
  IN  IF k > Len(bs) THEN s
      ELSE IF scope = 0 \/ scope \in seen THEN ModifiedBindingsSegment(I, s, funcValue, k + 1)
      ELSE IF ~residualBinding.referentialized THEN Fail(s, "invariant")
      ELSE ModifiedBindingsSegment(I,
             [s EXCEPT !.additionalFunctionModifiedBindingsSegment = MapPush(@, funcValue, init)],
             funcValue, k + 1)

RECURSIVE ModifiedBindingsSegments(_, _, _)
ModifiedBindingsSegments(I, s, i) ==
  IF i > Len(I.additionalFunctionValueInfos) \/ s.error # "none" THEN s
  ELSE ModifiedBindingsSegments(I,
         ModifiedBindingsSegment(I, s, I.additionalFunctionValueInfos[i], 1), i + 1)

\* lines 287-290 and 326-347
EmitModifiedBindings(I, s) ==
  LET untagged == \E i \in 1..Len(s.functions) :
                    I.residualFunctionInfos[s.functions[i].code].uniqueOrderedTag = 0
      s1 == [s EXCEPT !.functionEntries = SortFunctionByOriginalOrdering(I, s.functions)]
      s2 == ModifiedBindingsSegments(I, s1, 1)
  IN  IF Len(s.functions) > 1 /\ untagged THEN Fail(s, "invariant")
      ELSE IF s2.error # "none" THEN s2
      ELSE [s2 EXCEPT !.pc = "additional"]

\* lines 349-415
RECURSIVE ProcessAdditionalFunctionsFrom(_, _, _)
ProcessAdditionalFunctionsFrom(I, s, i) ==
  IF i > Len(I.additionalFunctionValueInfos) \/ s.error # "none" THEN s
  ELSE ProcessAdditionalFunctionsFrom(I,
         ProcessAdditionalFunction(I, s, I.additionalFunctionValueInfos[i]), i + 1)

ProcessAdditionalFunctions(I, s) ==
  LET s1 == ProcessAdditionalFunctionsFrom(I, s, 1)
  IN  IF s1.error # "none" THEN s1 ELSE [s1 EXCEPT !.pc = "normal"]

\* lines 417-665
RECURSIVE ProcessNormalFunctionsFrom(_, _, _)
ProcessNormalFunctionsFrom(I, s, i) ==
  IF i > Len(s.functionEntries) \/ s.error # "none" THEN s
  ELSE ProcessNormalFunctionsFrom(I, ProcessNormalFunction(I, s, s.functionEntries[i]), i + 1)

ProcessNormalFunctions(I, s) ==
  LET s1 == ProcessNormalFunctionsFrom(I, GenerateFactoryFunctionInfos(I, s, 1), 1)
  IN  IF s1.error # "none" THEN s1 ELSE [s1 EXCEPT !.pc = "splice"]

\* lines 667-676
RECURSIVE ReferentializationPreludes(_, _, _)
ReferentializationPreludes(I, s, i) ==
  IF i > Len(I.referentializationState) THEN s
  ELSE LET referentializationScope == I.referentializationState[i]
           stmts == <<Stmt("CapturedScopesArrayInitialization", Undefined, 0, referentializationScope),
                      Stmt("CaptureScopeAccessFunction", Undefined, 0, referentializationScope)>>
           s1 == IF referentializationScope # 0
                 THEN [s EXCEPT !.additionalFunctionPreludes =
                         [GetOrDefault(@, referentializationScope, <<>>)
                            EXCEPT ![referentializationScope] = stmts \o @]]
                 ELSE [s EXCEPT !.prelude = stmts \o @]
       IN  ReferentializationPreludes(I, s1, i + 1)

\* a mutant of SpliceInstances: an instance without insertion point is spliced at index 0
RECURSIVE SpliceInstances_NoInvariant(_, _, _)
SpliceInstances_NoInvariant(I, s, instances) ==
  IF instances = <<>> \/ s.error # "none" THEN s
  ELSE LET f == Head(instances)
           insertionPoint == I.instanceOf[f].insertionPoint
       IN  IF f \notin DOMAIN s.functionBodies THEN SpliceInstances_NoInvariant(I, s, Tail(instances))
           ELSE SpliceInstances_NoInvariant(I,
                  [s EXCEPT !.bodyEntries = Splice(@, insertionPoint.index, s.functionBodies[f])],
                  Tail(instances))

\* the loop of lines 678-687 over an array of instances
RECURSIVE SpliceInstances(_, _, _)
SpliceInstances(I, s, instances) ==
  IF instances = <<>> \/ s.error # "none" THEN s
  ELSE LET f == Head(instances)
           insertionPoint == I.instanceOf[f].insertionPoint
       IN  IF f \notin DOMAIN s.functionBodies THEN SpliceInstances(I, s, Tail(instances))
           ELSE IF ~insertionPoint.defined THEN Fail(s, "invariant")
           ELSE SpliceInstances(I,
                  [s EXCEPT !.bodyEntries = Splice(@, insertionPoint.index, s.functionBodies[f])],
                  Tail(instances))

\* a mutant of ReverseSplice: the instances are visited in forward order
ReverseSplice_Forward(I, s) == SpliceInstances(I, s, s.functionInstances)

\* lines 678-687: this.functionInstances.reverse() reverses the array in place
ReverseSplice(I, s) ==
  LET s1 == [s EXCEPT !.functionInstances = Reverse(@)]
  IN  SpliceInstances(I, s1, s1.functionInstances)

\* lines 689-703, the entries of rewrittenAdditionalFunctions from the last to the first
RECURSIVE SpliceAdditionalFunctions(_, _, _)
SpliceAdditionalFunctions(I, s, i) ==
  IF i < 1 \/ s.error # "none" THEN s
  ELSE LET additionalFunction == s.rewrittenAdditionalFunctions[i].fv
           s1 == [s EXCEPT !.functionBodies = GetOrDefault(@, additionalFunction, <<>>)]
           initializationStatements == s1.functionBodies[additionalFunction]
           insertionPoint == I.instanceOf[additionalFunction].insertionPoint
           bodySegment == IF additionalFunction \in DOMAIN s.additionalFunctionModifiedBindingsSegment
                          THEN s.additionalFunctionModifiedBindingsSegment[additionalFunction]
                          ELSE <<>>
           prelude_ == IF additionalFunction \in DOMAIN s.additionalFunctionPreludes
                       THEN s.additionalFunctionPreludes[additionalFunction]
                       ELSE <<>>
       IN  IF additionalFunction \notin Range(I.additionalFunctionValueInfos)
           THEN Fail(s, "invariant")
           ELSE IF ~insertionPoint.defined THEN Fail(s1, "invariant")
           ELSE SpliceAdditionalFunctions(I,
                  [s1 EXCEPT !.bodyEntries = Splice(@, insertionPoint.index, initializationStatements),
                             !.rewrittenAdditionalFunctions[i].body = prelude_ \o bodySegment \o @],
                  i - 1)

\* lines 667-703
SpliceFunctionBodies(I, s) ==
  LET s1 == ReverseSplice(I, ReferentializationPreludes(I, s, 1))
      s2 == SpliceAdditionalFunctions(I, s1, Len(s1.rewrittenAdditionalFunctions))
  IN  IF s2.error # "none" THEN s2 ELSE [s2 EXCEPT !.pc = "inject"]

\* a mutant of UnshiftIntoNode: the statement is pushed at the end of the body
UnshiftIntoNode_Push(s, n, stmt) ==
  IF s.astNodes[n].role = "root"
  THEN [s EXCEPT !.rewrittenAdditionalFunctions =
          [i \in 1..Len(@) |-> IF @[i].fv = s.astNodes[n].fv
                               THEN [@[i] EXCEPT !.body = Append(@, stmt)]
                               ELSE @[i]]]
  ELSE [s EXCEPT !.astNodes[n].body = Append(@, stmt)]

\* blockStatement.body.unshift(initializerStatement); a root function shares its body
\* array with rewrittenAdditionalFunctions
UnshiftIntoNode(s, n, stmt) ==
  IF s.astNodes[n].role = "root"
  THEN [s EXCEPT !.rewrittenAdditionalFunctions =
          [i \in 1..Len(@) |-> IF @[i].fv = s.astNodes[n].fv
                               THEN [@[i] EXCEPT !.body = <<stmt>> \o @]
                               ELSE @[i]]]
  ELSE [s EXCEPT !.astNodes[n].body = <<stmt>> \o @]

\* lines 705-713
RECURSIVE InjectInitializersFrom(_, _, _)
InjectInitializersFrom(I, s, i) ==
  IF i > Len(s.funcNodes) THEN s
  ELSE LET functionValue == s.funcNodes[i].fv
       IN  InjectInitializersFrom(I,
             IF functionValue \in I.initializerStatements
             THEN UnshiftIntoNode(s, s.funcNodes[i].node,
                                  Stmt("InitializerStatement", Undefined, 0, functionValue))
             ELSE s,
             i + 1)

InjectInitializers(I, s) == [InjectInitializersFrom(I, s, 1) EXCEPT !.pc = "done"]

\* the state of a ResidualFunctions object after construction, with the arguments of
\* the spliceFunctions call to come
Constructed(I, rewritten) ==
  LET c == Constructor(I.residualFunctionInstances, I.instanceOf,
                       Range(I.additionalFunctionValueInfos))
  IN  [functionInstances |-> c.functionInstances,
       functions |-> c.functions,
       classes |-> <<>>,
       rewrittenAdditionalFunctions |-> rewritten,
       bodyEntries |-> OriginalEntries,
       pc |-> "start",
       error |-> "none",
       functionEntries |-> <<>>,
       strictFunctionBodies |-> <<>>,
       unstrictFunctionBodies |-> <<>>,
       astNodes |-> <<>>,
       functionBodies |-> <<>>,
       funcNodes |-> <<>>,
       additionalFunctionPreludes |-> <<>>,
       additionalFunctionModifiedBindingsSegment |-> <<>>,
       factoryFunctionInfos |-> <<>>,
       generatedNames |-> 0,
       emitted |-> [f \in FV |-> <<>>],
       prelude |-> <<>>]

\* one whole run of spliceFunctions
Step(I, s) ==
  CASE s.pc = "start" -> EmitModifiedBindings(I, s)
    [] s.pc = "additional" -> ProcessAdditionalFunctions(I, s)
    [] s.pc = "normal" -> ProcessNormalFunctions(I, s)
    [] s.pc = "splice" -> SpliceFunctionBodies(I, s)
    [] s.pc = "inject" -> InjectInitializers(I, s)
    [] OTHER -> s

RunSpliceFunctions(I, rewritten) ==
  Step(I, Step(I, Step(I, Step(I, Step(I, Constructed(I, rewritten))))))

(***************************************************************************)
(* Inputs of a run                                                         *)
(***************************************************************************)
\* ascending sequence of a set of numbers
RECURSIVE SortAsc(_)
SortAsc(S) ==
  IF S = {} THEN <<>>
  ELSE LET m == CHOOSE x \in S : \A y \in S : x <= y
       IN  <<m>> \o SortAsc(S \ {m})

Binding(declarative, value, serializedValue, referentialized, modified, isFunction) ==
  [declarativeEnvironmentRecord |-> declarative, value |-> value,
   serializedValue |-> serializedValue, referentialized |-> referentialized,
   modified |-> modified, isFunction |-> isFunction]

\* a binding of a captured variable that holds the value v
DefaultBinding(v) == Binding(TRUE, v, Direct(v), FALSE, FALSE, FALSE)

\* the residual bindings an instance can hold for a name; "missing" stands for no binding
BindingVariants == {"v1", "v2", "ref1", "ref2", "refModified", "global", "function", "missing"}

BindingOf(variant) ==
  CASE variant = "v1" -> DefaultBinding(1)
    [] variant = "v2" -> DefaultBinding(2)
    [] variant = "ref1" -> Binding(TRUE, 1, Slot(1), TRUE, FALSE, FALSE)
    [] variant = "ref2" -> Binding(TRUE, 2, Slot(2), TRUE, FALSE, FALSE)
    [] variant = "refModified" -> Binding(TRUE, 1, Slot(1), TRUE, TRUE, FALSE)
    [] variant = "global" -> Binding(FALSE, 0, Undefined, FALSE, FALSE, FALSE)
    [] OTHER -> Binding(TRUE, 3, Direct(3), FALSE, FALSE, TRUE)

BindingsOf(variant) == IF variant = "missing" THEN <<>> ELSE (1 :> BindingOf(variant))

DefaultInstance(f, code) ==
  [code |-> code, strict |-> FALSE, scopeInstances |-> <<>>,
   residualFunctionBindings |-> (1 :> DefaultBinding(f)),
   insertionPoint |-> BodyReference(0), initializationStatements |-> <<>>,
   containingAdditionalFunction |-> 0, hasEmptyConstructor |-> FALSE]

DefaultInfo(tag) ==
  [start |-> 10, end |-> 50, usesArguments |-> FALSE, usesThis |-> FALSE,
   uniqueOrderedTag |-> tag, params |-> <<"Identifier">>, unbound |-> <<1>>]

DefaultInputs ==
  [residualFunctionInstances |-> [i \in 1..NumFuncs |-> i],
   instanceOf |-> [f \in FV |-> DefaultInstance(f, 1)],
   residualFunctionInfos |-> [b \in Blocks |-> DefaultInfo(b)],
   residualClassMethodInstances |-> <<>>,
   additionalFunctionValueInfos |-> <<>>,
   modifiedBindings |-> <<>>,
   additionalFunctionValueNestedFunctions |-> {},
   functionPrototypes |-> {},
   firstFunctionUsages |-> <<>>,
   initializerStatements |-> {},
   referentializationState |-> <<>>,
   rewritten |-> <<>>]

\* the rewritten bodies for a sequence of additional functions
Rewritten(order) == [i \in 1..Len(order) |-> [fv |-> order[i], body |-> RewrittenBody(order[i])]]

WithAdditional(I, order, rewrittenOrder) ==
  [I EXCEPT !.additionalFunctionValueInfos = order,
            !.modifiedBindings = [f \in Range(order) |-> <<>>],
            !.rewritten = Rewritten(rewrittenOrder)]

\* source extents of a code block: <<start, end>>
Extents == {<<0, 40>>, <<10, 50>>, <<10, 40>>}

\* code blocks of several shapes with normal and nested instances
ShapeInput(code, nested, ext, scoped, usesArguments, lastIsAdditional) ==
  LET I == [DefaultInputs EXCEPT
              !.instanceOf = [f \in FV |->
                 [DefaultInstance(f, code[f]) EXCEPT
                    !.scopeInstances = IF f \in scoped THEN <<2, 1>> ELSE <<>>,
                    !.containingAdditionalFunction =
                       IF f \in nested /\ lastIsAdditional THEN NumFuncs ELSE 0]],
              !.residualFunctionInfos[1].start = ext[1],
              !.residualFunctionInfos[1].end = ext[2],
              !.residualFunctionInfos[1].usesArguments = usesArguments,
              !.initializerStatements = scoped,
              !.additionalFunctionValueNestedFunctions = nested]
  IN  IF lastIsAdditional THEN WithAdditional(I, <<NumFuncs>>, <<NumFuncs>>) ELSE I

\* insertion points and groups of statements to splice
SpliceInput(ip, withInit, mode) ==
  LET I == [DefaultInputs EXCEPT
              !.instanceOf = [f \in FV |->
                 [DefaultInstance(f, 1) EXCEPT
                    !.insertionPoint = IF ip[f] < 0 THEN NoInsertionPoint ELSE BodyReference(ip[f]),
                    !.initializationStatements =
                       IF f \in withInit THEN <<Stmt("InitializationStatement", Undefined, 0, f)>>
                       ELSE <<>>]],
              !.residualFunctionInfos[1].end = IF mode = "factory" THEN 50 ELSE 20]
  IN  IF mode = "additional" THEN WithAdditional(I, <<NumFuncs>>, <<NumFuncs>>) ELSE I

\* the residual bindings of the instances of one block
BindingInput(variant, end) ==
  [DefaultInputs EXCEPT
     !.instanceOf = [f \in FV |->
        [DefaultInstance(f, 1) EXCEPT !.residualFunctionBindings = BindingsOf(variant[f])]],
     !.residualFunctionInfos[1].end = end]

\* class methods and constructors
ClassInput(kind, twoBlocks, firstIsAdditional, oneClass) ==
  LET methods == {f \in FV : kind[f] # "function"}
      I == [DefaultInputs EXCEPT
              !.instanceOf = [f \in FV |->
                 [DefaultInstance(f, IF twoBlocks THEN 1 + (f % 2) ELSE 1) EXCEPT
                    !.hasEmptyConstructor = (kind[f] = "emptyConstructor"),
                    !.scopeInstances = IF kind[f] = "method" THEN <<2, 1>> ELSE <<>>,
                    !.strict = (kind[f] # "function")]],
              !.residualClassMethodInstances = [f \in methods |->
                 [methodType |-> IF kind[f] = "method" THEN "method" ELSE "constructor",
                  classPrototype |-> IF oneClass THEN 1 ELSE 1 + (f % 2)]]]
  IN  IF firstIsAdditional THEN WithAdditional(I, <<1>>, <<1>>) ELSE I

\* the same instances in every iteration order of the input maps
OrderInput(order, code, tag, end, additional) ==
  WithAdditional(
    [DefaultInputs EXCEPT
       !.residualFunctionInstances = order,
       !.instanceOf = [f \in FV |-> DefaultInstance(f, code[f])],
       !.residualFunctionInfos[1].uniqueOrderedTag = tag,
       !.residualFunctionInfos[2].uniqueOrderedTag = 3 - tag,
       !.residualFunctionInfos[1].end = end],
    additional, Reverse(additional))

\* a modified binding of an additional function: [scope, referentialized, referentializationScope]
ModifiedBinding(scope, referentialized, referentializationScope) ==
  [scope |-> scope, referentialized |-> referentialized,
   referentializationScope |-> referentializationScope]

ModifiedBindingsChoices ==
  {<<>>,
   <<ModifiedBinding(0, FALSE, 0)>>,
   <<ModifiedBinding(1, TRUE, 0), ModifiedBinding(1, TRUE, 0)>>,
   <<ModifiedBinding(1, TRUE, NumFuncs)>>,
   <<ModifiedBinding(1, FALSE, 0)>>}

\* addFunctionUsage(val, bodyReference): only the first usage of val is kept
AddFunctionUsage(usages, val, bodyReference) ==
  IF val \in DOMAIN usages THEN usages ELSE (val :> bodyReference) @@ usages

\* firstFunctionUsages after addFunctionUsage(val, ..) for every body reference of a sequence
RECURSIVE AddFunctionUsages(_, _, _)
AddFunctionUsages(usages, val, bodyReferences) ==
  IF bodyReferences = <<>> THEN usages
  ELSE AddFunctionUsages(AddFunctionUsage(usages, val, Head(bodyReferences)), val,
                         Tail(bodyReferences))

\* what decides between a .bind expression and a .call wrapper
StubInput(strict, usesThis, params, end, prototypes, firstUsage, initializers, lastIsAdditional, names) ==
  LET I == [DefaultInputs EXCEPT
              !.instanceOf = [f \in FV |->
                 [DefaultInstance(f, 1) EXCEPT
                    !.strict = IF f = 1 THEN strict ELSE FALSE,
                    !.insertionPoint = BodyReference(IF f = 1 THEN 1 ELSE 0),
                    !.residualFunctionBindings =
                       [name \in Range(names) |-> DefaultBinding(NumFuncs * (name - 1) + f)]]],
              !.residualFunctionInfos[1].unbound = names,
              !.residualFunctionInfos[1].usesThis = usesThis,
              !.residualFunctionInfos[1].params = params,
              !.residualFunctionInfos[1].end = end,
              !.functionPrototypes = prototypes,
              !.firstFunctionUsages = firstUsage,
              !.initializerStatements = initializers]
  IN  IF lastIsAdditional THEN WithAdditional(I, <<NumFuncs>>, <<NumFuncs>>) ELSE I

\* an additional function with its modified bindings, preludes and rewritten body
AdditionalInput(initializers, scopes, rewrittenOrder, modified) ==
  [WithAdditional([DefaultInputs EXCEPT !.initializerStatements = initializers,
                                        !.referentializationState = scopes,
                                        !.functionPrototypes = initializers],
                  <<NumFuncs>>, rewrittenOrder)
     EXCEPT !.modifiedBindings[NumFuncs] = modified]

(***************************************************************************)
(* The run as a state machine                                              *)
(***************************************************************************)
\* the inputs as one record
Inputs ==
  [residualFunctionInstances |-> residualFunctionInstances,
   instanceOf |-> instanceOf,
   residualFunctionInfos |-> residualFunctionInfos,
   residualClassMethodInstances |-> residualClassMethodInstances,
   additionalFunctionValueInfos |-> additionalFunctionValueInfos,
   modifiedBindings |-> modifiedBindings,
   additionalFunctionValueNestedFunctions |-> additionalFunctionValueNestedFunctions,
   functionPrototypes |-> functionPrototypes,
   firstFunctionUsages |-> firstFunctionUsages,
   initializerStatements |-> initializerStatements,
   referentializationState |-> referentializationState]

\* the state of the run as one record
RF ==
  [functionInstances |-> functionInstances,
   functions |-> functions,
   classes |-> classes,
   rewrittenAdditionalFunctions |-> rewrittenAdditionalFunctions,
   bodyEntries |-> bodyEntries,
   pc |-> pc,
   error |-> error,
   functionEntries |-> functionEntries,
   strictFunctionBodies |-> strictFunctionBodies,
   unstrictFunctionBodies |-> unstrictFunctionBodies,
   astNodes |-> astNodes,
   functionBodies |-> functionBodies,
   funcNodes |-> funcNodes,
   additionalFunctionPreludes |-> additionalFunctionPreludes,
   additionalFunctionModifiedBindingsSegment |-> additionalFunctionModifiedBindingsSegment,
   factoryFunctionInfos |-> factoryFunctionInfos,
   generatedNames |-> generatedNames,
   emitted |-> emitted,
   prelude |-> prelude]

SetRF(s) ==
  /\ functionInstances' = s.functionInstances
  /\ functions' = s.functions
  /\ classes' = s.classes
  /\ rewrittenAdditionalFunctions' = s.rewrittenAdditionalFunctions
  /\ bodyEntries' = s.bodyEntries
  /\ pc' = s.pc
  /\ error' = s.error
  /\ functionEntries' = s.functionEntries
  /\ strictFunctionBodies' = s.strictFunctionBodies
  /\ unstrictFunctionBodies' = s.unstrictFunctionBodies
  /\ astNodes' = s.astNodes
  /\ functionBodies' = s.functionBodies
  /\ funcNodes' = s.funcNodes
  /\ additionalFunctionPreludes' = s.additionalFunctionPreludes
  /\ additionalFunctionModifiedBindingsSegment' = s.additionalFunctionModifiedBindingsSegment
  /\ factoryFunctionInfos' = s.factoryFunctionInfos
  /\ generatedNames' = s.generatedNames
  /\ emitted' = s.emitted
  /\ prelude' = s.prelude

InitRFOf(I) ==
  LET s == Constructed(I, I.rewritten)
  IN  /\ residualFunctionInstances = I.residualFunctionInstances
      /\ instanceOf = I.instanceOf
      /\ residualFunctionInfos = I.residualFunctionInfos
      /\ residualClassMethodInstances = I.residualClassMethodInstances
      /\ additionalFunctionValueInfos = I.additionalFunctionValueInfos
      /\ modifiedBindings = I.modifiedBindings
      /\ additionalFunctionValueNestedFunctions = I.additionalFunctionValueNestedFunctions
      /\ functionPrototypes = I.functionPrototypes
      /\ firstFunctionUsages = I.firstFunctionUsages
      /\ initializerStatements = I.initializerStatements
      /\ referentializationState = I.referentializationState
      /\ functionInstances = s.functionInstances
      /\ functions = s.functions
      /\ classes = s.classes
      /\ rewrittenAdditionalFunctions = s.rewrittenAdditionalFunctions
      /\ bodyEntries = s.bodyEntries
      /\ pc = s.pc
      /\ error = s.error
      /\ functionEntries = s.functionEntries
      /\ strictFunctionBodies = s.strictFunctionBodies
      /\ unstrictFunctionBodies = s.unstrictFunctionBodies
      /\ astNodes = s.astNodes
      /\ functionBodies = s.functionBodies
      /\ funcNodes = s.funcNodes
      /\ additionalFunctionPreludes = s.additionalFunctionPreludes
      /\ additionalFunctionModifiedBindingsSegment = s.additionalFunctionModifiedBindingsSegment
      /\ factoryFunctionInfos = s.factoryFunctionInfos
      /\ generatedNames = s.generatedNames
      /\ emitted = s.emitted

\* a ResidualFunctions object without function instances
IdleResidualFunctions == InitRFOf([DefaultInputs EXCEPT !.residualFunctionInstances = <<>>])


(***************************************************************************)
(* Emitter (body stack)                                                    *)
(***************************************************************************)
\* emitter.isCurrentBodyOffspringOf(targetBody): walk of the parentBody chain
RECURSIVE IsOffspringOf(_, _, _)
IsOffspringOf(bs, cur, target) ==
  IF cur = NoBody THEN FALSE
  ELSE IF cur = target THEN TRUE
  ELSE IsOffspringOf(bs, bs[cur].parentBody, target)

isCurrentBodyOffspringOf(targetBody) == IsOffspringOf(bodies, emitterBody, targetBody)

\* emitter.emit(statement): append to the current body's entries
EmitInto(bs, b, stmt) == [bs EXCEPT ![b].entries = Append(@, stmt)]

(***************************************************************************)
(* LazyObjectsSerializer                                                   *)
(***************************************************************************)
\* Map.get on the ordered map of initializers: the body recorded for obj, or NoBody
LazyInitializerOf(inits, obj) ==
  IF \E i \in 1..Len(inits) : inits[i].obj = obj
  THEN (CHOOSE e \in Range(inits) : e.obj = obj).body
  ELSE NoBody

\* Map.set on the ordered map: an existing key keeps its position
LazyInitializersSet(inits, obj, body) ==
  IF \E i \in 1..Len(inits) : inits[i].obj = obj
  THEN [i \in 1..Len(inits) |->
          IF inits[i].obj = obj THEN [obj |-> obj, body |-> body] ELSE inits[i]]
  ELSE Append(inits, [obj |-> obj, body |-> body])

\* a mutant of GetValueLazyId: the seed is read but not advanced
GetValueLazyId_SeedNotAdvanced(ids, seed, obj) ==
  IF obj \in DOMAIN ids
  THEN [ids |-> ids, seed |-> seed, id |-> ids[obj]]
  ELSE [ids |-> (obj :> seed) @@ ids, seed |-> seed, id |-> seed]

\* _getValueLazyId(obj) = getOrDefault(_valueLazyIds, obj, () => _lazyObjectIdSeed++):
\* the map, the seed and the returned id after the call
GetValueLazyId(ids, seed, obj) ==
  IF obj \in DOMAIN ids
  THEN [ids |-> ids, seed |-> seed, id |-> ids[obj]]
  ELSE [ids |-> (obj :> seed) @@ ids, seed |-> seed + 1, id |-> seed]

\* history of the first id every object was given
FirstIds(first, ids) ==
  [o \in DOMAIN ids |-> IF o \in DOMAIN first THEN first[o] ELSE ids[o]]

\* _isEmittingIntoLazyObjectInitializerBody(obj)
_isEmittingIntoLazyObjectInitializerBody(obj) ==
  LET objLazyBody == LazyInitializerOf(_lazyObjectInitializers, obj)
  IN  objLazyBody # NoBody /\ isCurrentBodyOffspringOf(objLazyBody)

\* getSerializeObjectIdentifier(val): the callback parameter `obj` or the normal identifier
SerializeObjectIdentifier(val) ==
  IF _isEmittingIntoLazyObjectInitializerBody(val) THEN "obj" ELSE "id"

\* The initializer body that belongs to obj: the one being filled by a pending
\* serializeValueRawObject(obj), or else the one recorded in _lazyObjectInitializers.
OwnInitializerBody(obj) ==
  IF \E i \in 1..Len(frames) : frames[i].kind = "lazy" /\ frames[i].obj = obj
  THEN (CHOOSE f \in Range(frames) : f.kind = "lazy" /\ f.obj = obj).body
  ELSE LazyInitializerOf(_lazyObjectInitializers, obj)

NoIdentLog == [called |-> FALSE, val |-> 0, lazy |-> FALSE, inOwnBody |-> FALSE,
               inInitializer |-> FALSE, result |-> "id"]

\* the prelude as the serializer finds it: statements emitted before the lazy objects
InitialPrelude == <<[type |-> "ExpressionStatement", callee |-> "other", arg |-> "x"]>>

InitLazy ==
  /\ temporalAlias \in [Objs -> BOOLEAN]
  /\ _lazyObjectIdSeed = 1
  /\ _valueLazyIds = <<>>
  /\ firstLazyId = <<>>
  /\ _lazyObjectInitializers = <<>>
  /\ emitterBody = MainBody
  /\ bodies = <<[type |-> "MainGenerator", parentBody |-> NoBody, entries |-> <<>>]>>
  /\ frames = <<>>
  /\ serialized = [o \in Objs |-> "none"]
  /\ created = [o \in Objs |-> 0]
  /\ identLog = NoIdentLog
  /\ lazyPc = "serializing"
  /\ prelude = InitialPrelude
  /\ IdleResidualFunctions

\* serializeValueRawObject(obj), up to the call of _emitObjectProperties (lines 218, 129-136):
\* an alias takes the default path; otherwise a fresh initializer body becomes current.
serializeValueRawObject(obj) ==
  /\ lazyPc = "serializing"
  /\ serialized[obj] = "none"
  /\ IF temporalAlias[obj]
     THEN /\ serialized' = [serialized EXCEPT ![obj] = "eager"]
          /\ bodies' = EmitInto(bodies, emitterBody, [type |-> "eagerObject", val |-> obj, id |-> 0])
          /\ UNCHANGED <<emitterBody, frames>>
     ELSE LET initializerBody == Len(bodies) + 1
          IN  /\ bodies' = Append(bodies, [type |-> LAZY_OBJECTS_SERIALIZER_BODY_TYPE,
                                           parentBody |-> NoBody, entries |-> <<>>])
              /\ frames' = Append(frames, [kind |-> "lazy", obj |-> obj,
                                           body |-> initializerBody, oldBody |-> emitterBody])
              /\ emitterBody' = initializerBody
              /\ serialized' = [serialized EXCEPT ![obj] = "emitting"]
  /\ UNCHANGED <<temporalAlias, _lazyObjectIdSeed, _valueLazyIds, firstLazyId,
                 _lazyObjectInitializers,
                 created, lazyPc, prelude>>
  /\ identLog' = NoIdentLog
  /\ UNCHANGED rfVars

\* the rest of serializeValueRawObject(obj) once _emitObjectProperties has returned
\* (lines 137-139, 219-220, 182-188)
serializeValueRawObjectReturn ==
  /\ lazyPc = "serializing"
  /\ frames # <<>>
  /\ LET fr == frames[Len(frames)]
         r == GetValueLazyId(_valueLazyIds, _lazyObjectIdSeed, fr.obj)
     IN  /\ fr.kind = "lazy"
         /\ emitterBody' = fr.oldBody
         /\ frames' = SubSeq(frames, 1, Len(frames) - 1)
         /\ _lazyObjectInitializers' = LazyInitializersSet(_lazyObjectInitializers, fr.obj, fr.body)
         /\ _valueLazyIds' = r.ids
         /\ firstLazyId' = FirstIds(firstLazyId, r.ids)
         /\ _lazyObjectIdSeed' = r.seed
         /\ created' = [created EXCEPT ![fr.obj] = r.id]
         /\ serialized' = [serialized EXCEPT ![fr.obj] = "lazy"]
         /\ bodies' = EmitInto(bodies, fr.oldBody,
                                [type |-> "createLazyObject", val |-> fr.obj, id |-> r.id])
  /\ UNCHANGED <<temporalAlias, lazyPc, prelude>>
  /\ identLog' = NoIdentLog
  /\ UNCHANGED rfVars

\* _emitObjectProperties(obj) or emitIntegrityCommand raises an error inside
\* _serializeLazyObjectInitializer (lines 136-137): there is no try/finally, so the call
\* is left without endEmitting (line 138), the body is not recorded (line 219 is not
\* reached) and the error travels on to the caller
_serializeLazyObjectInitializerThrows ==
  /\ lazyPc = "serializing"
  /\ frames # <<>>
  /\ frames[Len(frames)].kind = "lazy"
  /\ frames' = SubSeq(frames, 1, Len(frames) - 1)
  /\ lazyPc' = "failed"
  /\ UNCHANGED <<temporalAlias, _lazyObjectIdSeed, _valueLazyIds, firstLazyId,
                 _lazyObjectInitializers, emitterBody, bodies, serialized, created, prelude>>
  /\ identLog' = NoIdentLog
  /\ UNCHANGED rfVars

\* getSerializeObjectIdentifier(val), called by the property emission for a reference to val
getSerializeObjectIdentifier(val) ==
  /\ lazyPc = "serializing"
  /\ LET result == SerializeObjectIdentifier(val)
         own == OwnInitializerBody(val)
     IN  /\ identLog' = [called |-> TRUE, val |-> val,
                         lazy |-> serialized[val] \in {"emitting", "lazy"},
                         inOwnBody |-> own # NoBody /\ isCurrentBodyOffspringOf(own),
                         inInitializer |-> \E b \in 1..Len(bodies) :
                              /\ bodies[b].type = LAZY_OBJECTS_SERIALIZER_BODY_TYPE
                              /\ isCurrentBodyOffspringOf(b),
                         result |-> result]
  /\ UNCHANGED <<temporalAlias, _lazyObjectIdSeed, _valueLazyIds, firstLazyId,
                 _lazyObjectInitializers,
                 emitterBody, bodies, frames, serialized, created, lazyPc, prelude>>
  /\ UNCHANGED rfVars

\* emitter.beginEmitting(.., childBody, isChild = true): a nested body
\* (e.g. a ConditionalAssignmentBranch) becomes current
beginEmittingChild ==
  /\ lazyPc = "serializing"
  /\ bodies[emitterBody].type = LAZY_OBJECTS_SERIALIZER_BODY_TYPE
  /\ \A b \in 1..Len(bodies) : bodies[b].parentBody # emitterBody
  /\ bodies' = Append(bodies, [type |-> "ConditionalAssignmentBranch",
                               parentBody |-> emitterBody, entries |-> <<>>])
  /\ frames' = Append(frames, [kind |-> "child", obj |-> 0,
                               body |-> Len(bodies) + 1, oldBody |-> emitterBody])
  /\ emitterBody' = Len(bodies) + 1
  /\ UNCHANGED <<temporalAlias, _lazyObjectIdSeed, _valueLazyIds, firstLazyId,
                 _lazyObjectInitializers,
                 serialized, created, lazyPc, prelude>>
  /\ identLog' = NoIdentLog
  /\ UNCHANGED rfVars

\* emitter.beginEmitting(.., body): the emitter resumes a recorded initializer body to
\* emit entries that were delayed
beginEmittingDelayed(obj) ==
  /\ lazyPc = "serializing"
  /\ LazyInitializerOf(_lazyObjectInitializers, obj) # NoBody
  /\ frames = <<>>
  /\ frames' = Append(frames, [kind |-> "delayed", obj |-> obj,
                               body |-> LazyInitializerOf(_lazyObjectInitializers, obj),
                               oldBody |-> emitterBody])
  /\ emitterBody' = LazyInitializerOf(_lazyObjectInitializers, obj)
  /\ UNCHANGED <<temporalAlias, _lazyObjectIdSeed, _valueLazyIds, firstLazyId,
                 _lazyObjectInitializers,
                 bodies, serialized, created, lazyPc, prelude>>
  /\ identLog' = NoIdentLog
  /\ UNCHANGED rfVars

\* emitter.endEmitting(.., oldBody) matching a beginEmitting of the base serializer;
\* a finished child body that nothing refers to any more is dropped from the heap
endEmitting ==
  /\ lazyPc = "serializing"
  /\ frames # <<>>
  /\ frames[Len(frames)].kind \in {"child", "delayed"}
  /\ emitterBody' = frames[Len(frames)].oldBody
  /\ frames' = SubSeq(frames, 1, Len(frames) - 1)
  /\ bodies' = IF frames[Len(frames)].kind = "child" /\ frames[Len(frames)].body = Len(bodies)
                THEN SubSeq(bodies, 1, Len(bodies) - 1)
                ELSE bodies
  /\ UNCHANGED <<temporalAlias, _lazyObjectIdSeed, _valueLazyIds, firstLazyId,
                 _lazyObjectInitializers,
                 serialized, created, lazyPc, prelude>>
  /\ identLog' = NoIdentLog
  /\ UNCHANGED rfVars

\* _getValueLazyId(obj)
_getValueLazyId(obj) ==
  /\ lazyPc = "serializing"
  /\ frames = <<>>
  /\ LET r == GetValueLazyId(_valueLazyIds, _lazyObjectIdSeed, obj)
     IN  /\ _valueLazyIds' = r.ids
         /\ firstLazyId' = FirstIds(firstLazyId, r.ids)
         /\ _lazyObjectIdSeed' = r.seed
  /\ UNCHANGED <<temporalAlias, _lazyObjectInitializers, emitterBody, bodies, frames,
                 serialized, created, lazyPc, prelude>>
  /\ identLog' = NoIdentLog
  /\ UNCHANGED rfVars

\* a mutant of SwitchCases: an initializer without entries gets no case
RECURSIVE SwitchCases_SkipsEmpty(_, _, _, _)
SwitchCases_SkipsEmpty(inits, i, ids, seed) ==
  IF i > Len(inits)
  THEN [cases |-> <<[test |-> 0, body |-> <<[type |-> "throw", val |-> 0, id |-> 0]>>]>>,
        ids |-> ids, seed |-> seed]
  ELSE LET r == GetValueLazyId(ids, seed, inits[i].obj)
           rest == SwitchCases_SkipsEmpty(inits, i + 1, r.ids, r.seed)
           caseBody == Append(bodies[inits[i].body].entries,
                              [type |-> "break", val |-> 0, id |-> 0])
       IN  [cases |-> (IF bodies[inits[i].body].entries = <<>> THEN <<>>
                       ELSE <<[test |-> r.id, body |-> caseBody]>>) \o rest.cases,
            ids |-> rest.ids, seed |-> rest.seed]

\* _serializeInitializationCallback: the switch cases, one per recorded initializer in
\* map order (each asks _getValueLazyId), then the default case
RECURSIVE SwitchCases(_, _, _, _)
SwitchCases(inits, i, ids, seed) ==
  IF i > Len(inits)
  THEN [cases |-> <<[test |-> 0, body |-> <<[type |-> "throw", val |-> 0, id |-> 0]>>]>>,
        ids |-> ids, seed |-> seed]
  ELSE LET r == GetValueLazyId(ids, seed, inits[i].obj)
           rest == SwitchCases(inits, i + 1, r.ids, r.seed)
           caseBody == Append(bodies[inits[i].body].entries,
                              [type |-> "break", val |-> 0, id |-> 0])
       IN  [cases |-> <<[test |-> r.id, body |-> caseBody]>> \o rest.cases,
            ids |-> rest.ids, seed |-> rest.seed]

_serializeInitializationCallback ==
  [type |-> "VariableDeclaration", id |-> "__initializerCallback",
   params |-> <<"obj", "id">>,
   cases |-> SwitchCases(_lazyObjectInitializers, 1, _valueLazyIds, _lazyObjectIdSeed).cases]

_serializeRegisterInitializationCallback ==
  [type |-> "ExpressionStatement", callee |-> "setLazyObjectInitializer",
   arg |-> "__initializerCallback"]

\* a mutant of PostGeneratorPrelude: the two statements are pushed unconditionally
PostGeneratorPrelude_Unconditional ==
  prelude \o <<_serializeInitializationCallback, _serializeRegisterInitializationCallback>>

\* the prelude after postGeneratorSerialization()
PostGeneratorPrelude ==
  IF Len(_lazyObjectInitializers) > 0
  THEN prelude \o <<_serializeInitializationCallback, _serializeRegisterInitializationCallback>>
  ELSE prelude

\* postGeneratorSerialization(): runs once the generators have been serialized
postGeneratorSerialization ==
  /\ lazyPc = "serializing"
  /\ frames = <<>>
  /\ prelude' = PostGeneratorPrelude
  /\ LET r == SwitchCases(_lazyObjectInitializers, 1, _valueLazyIds, _lazyObjectIdSeed)
     IN  /\ _valueLazyIds' = r.ids
         /\ firstLazyId' = FirstIds(firstLazyId, r.ids)
         /\ _lazyObjectIdSeed' = r.seed
  /\ lazyPc' = "done"
  /\ UNCHANGED <<temporalAlias, _lazyObjectInitializers, emitterBody, bodies, frames,
                 serialized, created>>
  /\ identLog' = NoIdentLog
  /\ UNCHANGED rfVars

NextLazy ==
  \/ \E obj \in Objs : serializeValueRawObject(obj)
  \/ serializeValueRawObjectReturn
  \/ _serializeLazyObjectInitializerThrows
  \/ \E val \in Objs : getSerializeObjectIdentifier(val)
  \/ beginEmittingChild
  \/ \E obj \in Objs : beginEmittingDelayed(obj)
  \/ endEmitting
  \/ \E obj \in Objs : _getValueLazyId(obj)
  \/ postGeneratorSerialization

SpecLazy == InitLazy /\ [][NextLazy]_vars

\* the variables of the lazy objects serializer stay as constructed during spliceFunctions
IdleLazy ==
  /\ temporalAlias = [o \in Objs |-> FALSE]
  /\ _lazyObjectIdSeed = 1
  /\ _valueLazyIds = <<>>
  /\ firstLazyId = <<>>
  /\ _lazyObjectInitializers = <<>>
  /\ emitterBody = MainBody
  /\ bodies = <<[type |-> "MainGenerator", parentBody |-> NoBody, entries |-> <<>>]>>
  /\ frames = <<>>
  /\ serialized = [o \in Objs |-> "none"]
  /\ created = [o \in Objs |-> 0]
  /\ identLog = NoIdentLog
  /\ lazyPc = "serializing"

\* the runs that are explored: one family of inputs per concern
InitialRun ==
  \/ \E code \in [FV -> Blocks], nested \in SUBSET FV, ext \in Extents,
        scoped \in {{}, {1}, {2}}, usesArguments \in BOOLEAN, lastIsAdditional \in BOOLEAN :
       InitRFOf(ShapeInput(code, nested, ext, scoped, usesArguments, lastIsAdditional))
  \/ \E ip \in [FV -> -1..BodyLen], withInit \in {{}, {1}, {1, 2}, {NumFuncs}, FV},
        mode \in {"naive", "factory", "additional"} :
       InitRFOf(SpliceInput(ip, withInit, mode))
  \/ \E variant \in [FV -> BindingVariants], end \in {20, 50} :
       InitRFOf(BindingInput(variant, end))
  \/ \E kind \in [FV -> {"function", "constructor", "emptyConstructor", "method"}],
        twoBlocks \in BOOLEAN, firstIsAdditional \in BOOLEAN, oneClass \in BOOLEAN :
       InitRFOf(ClassInput(kind, twoBlocks, firstIsAdditional, oneClass))
  \/ \E order \in Permutations(FV), code \in [FV -> Blocks], tag \in {1, 2}, end \in {20, 50},
        additional \in {<<>>, <<NumFuncs>>, <<NumFuncs - 1, NumFuncs>>, <<NumFuncs, NumFuncs - 1>>} :
       InitRFOf(OrderInput(order, code, tag, end, additional))
  \/ \E strict \in BOOLEAN, usesThis \in BOOLEAN,
        params \in {<<"Identifier">>, <<"Identifier", "ObjectPattern">>}, end \in {20, 50},
        prototypes \in {{}, {1}},
        firstUsage \in {AddFunctionUsages(<<>>, 1, usages) :
                          usages \in {<<>>, <<BodyReference(0), BodyReference(BodyLen)>>,
                                      <<BodyReference(BodyLen), BodyReference(0)>>}},
        initializers \in {{}, {2}}, lastIsAdditional \in BOOLEAN,
        names \in {<<1>>, <<1, 2>>, <<2, 1>>} :
       InitRFOf(StubInput(strict, usesThis, params, end, prototypes, firstUsage, initializers,
                          lastIsAdditional, names))
  \/ \E initializers \in {{}, {NumFuncs}}, scopes \in {<<>>, <<0, NumFuncs>>},
        rewrittenOrder \in {<<NumFuncs>>, <<>>, <<NumFuncs, 1>>},
        modified \in ModifiedBindingsChoices :
       InitRFOf(AdditionalInput(initializers, scopes, rewrittenOrder, modified))

Init ==
  /\ IdleLazy
  /\ InitialRun
  /\ prelude = <<>>

emitModifiedBindings ==
  /\ pc = "start"
  /\ SetRF(EmitModifiedBindings(Inputs, RF))
  /\ UNCHANGED <<lazyVars, rfInputs>>

processAdditionalFunctions ==
  /\ pc = "additional"
  /\ SetRF(ProcessAdditionalFunctions(Inputs, RF))
  /\ UNCHANGED <<lazyVars, rfInputs>>

processNormalFunctions ==
  /\ pc = "normal"
  /\ SetRF(ProcessNormalFunctions(Inputs, RF))
  /\ UNCHANGED <<lazyVars, rfInputs>>

spliceFunctionBodies ==
  /\ pc = "splice"
  /\ SetRF(SpliceFunctionBodies(Inputs, RF))
  /\ UNCHANGED <<lazyVars, rfInputs>>

injectInitializers ==
  /\ pc = "inject"
  /\ SetRF(InjectInitializers(Inputs, RF))
  /\ UNCHANGED <<lazyVars, rfInputs>>

Next ==
  \/ emitModifiedBindings
  \/ processAdditionalFunctions
  \/ processNormalFunctions
  \/ spliceFunctionBodies
  \/ injectInitializers

Spec == Init /\ [][Next]_vars

(***************************************************************************)
(* Claims about the LazyObjectsSerializer                                   *)
(***************************************************************************)

\* C3 (as claimed): a call getSerializeObjectIdentifier(o) for a lazily serialized o
\* returns the callback parameter `obj` when the current body is o's own initializer
\* body or a descendant of it (also while the property emission fills that body),
\* returns the normal identifier when the current body is anywhere else, and never
\* returns the parameter for an object that is not lazy.
C3_SelfReferenceSubstitution ==
  identLog.called =>
    /\ (identLog.lazy /\ identLog.inOwnBody => identLog.result = "obj")
    /\ (identLog.lazy /\ ~identLog.inOwnBody => identLog.result = "id")
    /\ (~identLog.lazy => identLog.result = "id")

\* C4: the id map is an injective function from objects to integers >= 1, and every
\* later request for an object (the createLazyObject argument, the switch case label)
\* returns the id the object was given first.
C4_LazyIdStability ==
  /\ \A o \in DOMAIN _valueLazyIds : _valueLazyIds[o] >= 1
  /\ \A o1, o2 \in DOMAIN _valueLazyIds : o1 # o2 => _valueLazyIds[o1] # _valueLazyIds[o2]
  /\ \A o \in DOMAIN _valueLazyIds : _valueLazyIds[o] = firstLazyId[o]
  /\ \A o \in Objs : created[o] # 0 => o \in DOMAIN firstLazyId /\ created[o] = firstLazyId[o]
  /\ (lazyPc = "done" /\ _lazyObjectInitializers # <<>>) =>
        \A i \in 1..Len(_lazyObjectInitializers) :
          prelude[Len(prelude) - 1].cases[i].test = firstLazyId[_lazyObjectInitializers[i].obj]

\* C4 witness: two objects hold ids, the one serialized first holds the larger id
\* (its id was requested later than the other's), and the pass has finished.
C4_Witness ==
  /\ lazyPc = "done"
  /\ Len(_lazyObjectInitializers) >= 2
  /\ _valueLazyIds[_lazyObjectInitializers[1].obj] > _valueLazyIds[_lazyObjectInitializers[2].obj]

\* C5: postGeneratorSerialization leaves the prelude unchanged when no object was
\* serialized lazily, and otherwise appends exactly the callback declaration followed
\* by the registration call.
C5_NoLazyNoRuntimeCalls ==
  lazyPc = "done" =>
    IF \A o \in Objs : serialized[o] # "lazy"
    THEN prelude = InitialPrelude
    ELSE /\ Len(prelude) = Len(InitialPrelude) + 2
         /\ SubSeq(prelude, 1, Len(InitialPrelude)) = InitialPrelude
         /\ prelude[Len(prelude) - 1].type = "VariableDeclaration"
         /\ prelude[Len(prelude) - 1].id = "__initializerCallback"
         /\ prelude[Len(prelude)].type = "ExpressionStatement"
         /\ prelude[Len(prelude)].callee = "setLazyObjectInitializer"
         /\ prelude[Len(prelude)].arg = "__initializerCallback"

\* C5 witness: every object of the pass was an alias, and the pass has finished.
C5_Witness ==
  /\ lazyPc = "done"
  /\ \A o \in Objs : serialized[o] = "eager"
  /\ prelude = InitialPrelude

\* C11 (as claimed): every exit of the lazy serializeValueRawObject /
\* _serializeLazyObjectInitializer, the exit by an error of the property emission or of
\* the integrity command included, leaves the emitter with the body that was current
\* when the call was entered.
C11_PairedBodyPushPop ==
  [][(/\ frames # <<>>
      /\ frames[Len(frames)].kind = "lazy"
      /\ frames' = SubSeq(frames, 1, Len(frames) - 1))
       => emitterBody' = frames[Len(frames)].oldBody]_vars

\* C11, the normal exit only: a call that returns leaves the entry body current
C11_PairedOnReturn ==
  [][(/\ frames # <<>>
      /\ frames[Len(frames)].kind = "lazy"
      /\ frames' = SubSeq(frames, 1, Len(frames) - 1)
      /\ lazyPc' = "serializing")
       => emitterBody' = frames[Len(frames)].oldBody]_vars

\* the cases of the switch statement of the initialization callback in the prelude
EmittedSwitchCases == prelude[Len(prelude) - 1].cases

\* the objects of the pass for which a createLazyObject(id) call was emitted
LazilyCreated == {o \in Objs : created[o] # 0}

NormalInstancesOf(i) ==
  SelectSeqBy(functions[i].instances,
              Range(functions[i].instances) \ additionalFunctionValueNestedFunctions)

NestedInstancesOf(i) ==
  SelectSeqBy(functions[i].instances,
              Range(functions[i].instances) \cap additionalFunctionValueNestedFunctions)

\* the factory definitions the prelude holds for a code block
FactoryDeclarations(funcBody) ==
  {k \in 1..Len(prelude) :
     /\ prelude[k].type = "VariableDeclaration"
     /\ prelude[k].init # 0
     /\ astNodes[prelude[k].init].role = "factory"
     /\ astNodes[prelude[k].init].code = funcBody}

\* instance f is defined as a .bind expression or a .call wrapper of a factory of funcBody
IsStubOfFactory(f, funcBody) ==
  /\ emitted[f] \in {<<"bind">>, <<"call">>}
  /\ \E n \in 1..Len(astNodes) :
       /\ astNodes[n].fv = f
       /\ astNodes[n].role = emitted[f][1]
       /\ \E k \in FactoryDeclarations(funcBody) : prelude[k].id = astNodes[n].callee

\* instance f is defined as an independent rewritten clone of the body
IsClone(f) == emitted[f] = <<"naive">>

OriginalFunctionInstances ==
  Constructor(residualFunctionInstances, instanceOf, Range(additionalFunctionValueInfos)).functionInstances

GroupOrder == SelectSeqBy(OriginalFunctionInstances, DOMAIN functionBodies)

\* the statements that belong immediately before original entry k + 1 (k = BodyLen: the end)
RECURSIVE GroupsAt(_, _)
GroupsAt(order, k) ==
  IF order = <<>> THEN <<>>
  ELSE (IF instanceOf[Head(order)].insertionPoint.index = k
        THEN functionBodies[Head(order)] ELSE <<>>) \o GroupsAt(Tail(order), k)

RECURSIVE InterleavingFrom(_, _)
InterleavingFrom(order, k) ==
  IF k > BodyLen THEN <<>>
  ELSE GroupsAt(order, k)
       \o (IF k < BodyLen THEN <<OriginalEntries[k + 1]>> ELSE <<>>)
       \o InterleavingFrom(order, k + 1)

ExpectedInterleaving == InterleavingFrom(GroupOrder, 0)

NoAdditionalGroup ==
  \A f \in Range(additionalFunctionValueInfos) :
    f \in DOMAIN functionBodies => functionBodies[f] = <<>>

InsertionIndicesAscend ==
  \A i, j \in 1..Len(GroupOrder) :
    i < j => instanceOf[GroupOrder[i]].insertionPoint.index
               <= instanceOf[GroupOrder[j]].insertionPoint.index

NodeKey(s, n) ==
  IF s.astNodes[n].role = "class"
  THEN [role |-> "class", fv |-> CHOOSE p \in DOMAIN s.classes : s.classes[p] = n, code |-> 0]
  ELSE [role |-> s.astNodes[n].role, fv |-> s.astNodes[n].fv, code |-> s.astNodes[n].code]

StatementKey(s, stmt) ==
  IF stmt.type = "VariableDeclaration" /\ stmt.init # 0 THEN NodeKey(s, stmt.init)
  ELSE [role |-> stmt.type, fv |-> stmt.fv, code |-> 0]

\* the order of the emitted function/class definitions of a run
DefinitionOrder(s) ==
  [strict |-> [k \in 1..Len(s.strictFunctionBodies) |-> NodeKey(s, s.strictFunctionBodies[k])],
   unstrict |-> [k \in 1..Len(s.unstrictFunctionBodies) |-> NodeKey(s, s.unstrictFunctionBodies[k])],
   prelude |-> [k \in 1..Len(s.prelude) |-> StatementKey(s, s.prelude[k])]]

\* the run over the same instances, infos and tags with every input map in ascending
\* key order
ReferenceRun ==
  RunSpliceFunctions(
    [Inputs EXCEPT !.residualFunctionInstances = SortAsc(Range(@)),
                   !.additionalFunctionValueInfos = SortAsc(Range(@))],
    Rewritten(SortAsc({rewrittenAdditionalFunctions[k].fv :
                         k \in 1..Len(rewrittenAdditionalFunctions)})))

SameOrderWithinBlocks ==
  /\ \A i, j \in 1..Len(residualFunctionInstances) :
       (/\ i < j
        /\ instanceOf[residualFunctionInstances[i]].code = instanceOf[residualFunctionInstances[j]].code)
       => residualFunctionInstances[i] < residualFunctionInstances[j]
  /\ additionalFunctionValueInfos = SortAsc(Range(additionalFunctionValueInfos))

BindingOfReplacement(n, name) ==
  instanceOf[astNodes[n].bindingOwner[name]].residualFunctionBindings[name]

\* C7: whenever a binding is referentialized, the replacement recorded for its name (in
\* a clone, a class method or a factory body) carries no direct value and resolves
\* through the scope slot, and so does the argument a factory stub passes for it.
C7_BindingExclusivity ==
  \A n \in 1..Len(astNodes) :
    /\ \A name \in DOMAIN astNodes[n].replacements :
         BindingOfReplacement(n, name).referentialized
           => /\ astNodes[n].replacements[name].value = 0
              /\ astNodes[n].replacements[name].node.t = "slot"
    /\ \A k \in 1..Len(astNodes[n].argNames) :
         instanceOf[astNodes[n].fv].residualFunctionBindings[astNodes[n].argNames[k]].referentialized
           => astNodes[n].args[k + 1].t = "slot"

\* C7 witness: a completed run whose stubs pass a referentialized binding as argument.
C7_Witness ==
  /\ pc = "done"
  /\ \E n \in 1..Len(astNodes) :
       /\ astNodes[n].role \in {"bind", "call"}
       /\ Len(astNodes[n].argNames) > 0
       /\ instanceOf[astNodes[n].fv].residualFunctionBindings[astNodes[n].argNames[1]].referentialized
       /\ astNodes[n].args[2].t = "slot"

\* C8 (as claimed): all instances of a code block are emitted through one shape, and the
\* factory decision recorded by _generateFactoryFunctionInfos equals the one spliceFunctions
\* takes for the block.
C8_OneShapePerBlock ==
  pc = "done" =>
    \A i \in 1..Len(functions) :
      LET funcBody == functions[i].code
          instances == functions[i].instances
          tag == residualFunctionInfos[funcBody].uniqueOrderedTag
      IN  /\ \/ \A j \in 1..Len(instances) : IsClone(instances[j])
             \/ \A j \in 1..Len(instances) : IsStubOfFactory(instances[j], funcBody)
          /\ (factoryFunctionInfos[tag].factoryId.t = "factory")
               = (FactoryDeclarations(funcBody) # {})

\* C9: in a completed run every instance of residualFunctionInstances went through
\* exactly one emission kind, has at most one node of its own, and an additional
\* function is emitted only as an optimized root.
C9_OneEmissionKindPerInstance ==
  pc = "done" =>
    \A f \in Range(residualFunctionInstances) :
      /\ Len(emitted[f]) = 1
      /\ emitted[f][1] \in {"naive", "call", "bind", "root"}
      /\ Cardinality({n \in 1..Len(astNodes) : astNodes[n].fv = f}) <= 1
      /\ (f \in Range(additionalFunctionValueInfos) <=> emitted[f] = <<"root">>)

\* C9 witness: a completed run with a .call stub, a .bind stub and an optimized root.
C9_Witness ==
  /\ pc = "done"
  /\ \E f, g, h \in Range(residualFunctionInstances) :
       emitted[f] = <<"call">> /\ emitted[g] = <<"bind">> /\ emitted[h] = <<"root">>

\* the instances spliceFunctions handled
Handled == {f \in FV : emitted[f] # <<>>}

\* C10 (as claimed): a run in which a handled instance has no insertionPoint does not
\* complete.
C10_InsertionPointMandatory ==
  pc = "done" => \A f \in Handled : instanceOf[f].insertionPoint.defined

\* C10 (amended): a run completes with a handled instance that has no insertionPoint
\* only if that instance is a clone with nothing to splice: no initialization statements
\* and no class definition; stubs, optimized roots and instances with statements fail.
C10_InsertionPointWhereSpliced ==
  pc = "done" =>
    \A f \in Handled :
      ~instanceOf[f].insertionPoint.defined
        => /\ IsClone(f)
           /\ instanceOf[f].initializationStatements = <<>>
           /\ f \notin DOMAIN functionBodies

\* C10 witness: a completed run that cloned an instance without insertionPoint.
C10_Witness ==
  /\ pc = "done"
  /\ \E f \in Handled : ~instanceOf[f].insertionPoint.defined /\ IsClone(f)


\* C12 (as claimed): when spliceFunctions raises FatalError, the prelude, the bodies at
\* the insertion points and the rewritten additional-function bodies are as they were
\* before the call.
C12_AllOrNothingOnFatalError ==
  error = "FatalError" =>
    /\ prelude = <<>>
    /\ bodyEntries = OriginalEntries
    /\ \A i \in 1..Len(rewrittenAdditionalFunctions) :
         rewrittenAdditionalFunctions[i].body =
           RewrittenBody(rewrittenAdditionalFunctions[i].fv)

\* C12, what is left untouched: the bodies at the insertion points and the rewritten
\* additional-function bodies of a run that raised FatalError
C12_NoSpliceOnFatalError ==
  error = "FatalError" =>
    /\ pc = "failed"
    /\ bodyEntries = OriginalEntries
    /\ \A i \in 1..Len(rewrittenAdditionalFunctions) :
         rewrittenAdditionalFunctions[i].body =
           RewrittenBody(rewrittenAdditionalFunctions[i].fv)
    /\ \E k \in 1..Len(prelude) :
         prelude[k].type = "VariableDeclaration" /\ prelude[k].id.t = "factory"


\* the result of the call _shouldUseFactoryFunction(funcBody, instances) made by
\* _generateFactoryFunctionInfos for entry i of this.functions, as recorded in
\* factoryFunctionInfos: a generated factory name stands for true
RecordedFactoryDecision(i) ==
  factoryFunctionInfos[residualFunctionInfos[functions[i].code].uniqueOrderedTag].factoryId.t
    = "factory"

HasRecordedFactoryDecision(i) ==
  residualFunctionInfos[functions[i].code].uniqueOrderedTag \in DOMAIN factoryFunctionInfos

\* C13 (as claimed): _shouldUseFactoryFunction returns true exactly when
\* !shouldInline && instanceCount > 1 && !usesArguments, where shouldInline is
\* !hasScopeCapture && size <= 30, hasScopeCapture holds when at least one instance of
\* the list has a non-empty scopeInstances, and size is the source extent end - start.
C13_FactoryPredicate ==
  \A i \in 1..Len(functions) :
    HasRecordedFactoryDecision(i) =>
      LET instances == functions[i].instances
          info == residualFunctionInfos[functions[i].code]
          hasScopeCapture == \E j \in 1..Len(instances) :
                               instanceOf[instances[j]].scopeInstances # <<>>
          shouldInline == ~hasScopeCapture /\ info.end - info.start <= InlineBodySizeLimit
      IN  RecordedFactoryDecision(i)
            <=> (~shouldInline /\ Len(instances) > 1 /\ ~info.usesArguments)

\* C13 (amended): _shouldUseFactoryFunction returns true exactly when
\* !shouldInline && instanceCount > 1 && !usesArguments, where shouldInline is
\* !hasScopeCapture && (start or end offset is 0 or end - start <= 30) and
\* hasScopeCapture holds when the first instance of the list has a non-empty
\* scopeInstances.
C13_FactoryPredicateFirstInstance ==
  \A i \in 1..Len(functions) :
    HasRecordedFactoryDecision(i) =>
      LET instances == functions[i].instances
          info == residualFunctionInfos[functions[i].code]
          hasScopeCapture == instanceOf[instances[1]].scopeInstances # <<>>
          shouldInline ==
            ~hasScopeCapture /\ (info.start = 0 \/ info.end = 0
                                 \/ info.end - info.start <= InlineBodySizeLimit)
      IN  RecordedFactoryDecision(i)
            <=> (~shouldInline /\ Len(instances) > 1 /\ ~info.usesArguments)

\* C13 witness: the decision was taken for a small block whose first instance captures
\* no scope while a later instance does, and it was false.
C13_Witness ==
  \E i \in 1..Len(functions) :
    /\ HasRecordedFactoryDecision(i)
    /\ ~RecordedFactoryDecision(i)
    /\ Len(functions[i].instances) > 1
    /\ ~residualFunctionInfos[functions[i].code].usesArguments
    /\ instanceOf[functions[i].instances[1]].scopeInstances = <<>>
    /\ \E j \in 2..Len(functions[i].instances) :
         instanceOf[functions[i].instances[j]].scopeInstances # <<>>


\* the nodes that define instance f as a stub of a factory
StubNodesOf(f) ==
  {n \in 1..Len(astNodes) : astNodes[n].fv = f /\ astNodes[n].role \in {"call", "bind"}}

\* the five conditions of the .call wrapper for instance f, read off the inputs; the
\* varying names are those the stub passes arguments for
CallWrapperConditions(f, n) ==
  LET bindings == instanceOf[f].residualFunctionBindings
  IN  \/ f \in initializerStatements
      \/ residualFunctionInfos[instanceOf[f].code].usesThis
      \/ \E k \in 1..Len(astNodes[n].argNames) :
           /\ bindings[astNodes[n].argNames[k]].value # 0
           /\ bindings[astNodes[n].argNames[k]].isFunction
      \/ (f \in DOMAIN firstFunctionUsages
          /\ firstFunctionUsages[f].index < instanceOf[f].insertionPoint.index)
      \/ f \in functionPrototypes

\* C14: every instance defined on the factory path is a factory.call(this, ..) wrapper
\* function exactly when it has a delayed initializer statement, the block uses `this`,
\* a varying binding has a function value, its first recorded usage is earlier than its
\* insertion point, or it has a prototype identifier; otherwise it is the expression
\* factory.bind(null, ...varyingArgs). Instances that differ only in a constant, with
\* none of the conditions, are all .bind expressions.
C14_StubSelection ==
  \A f \in FV :
    /\ Cardinality(StubNodesOf(f)) <= 1
    /\ \A n \in StubNodesOf(f) :
         /\ astNodes[n].role = "call" <=> CallWrapperConditions(f, n)
         /\ astNodes[n].role = "call" =>
              /\ astNodes[n].type = "FunctionExpression"
              /\ astNodes[n].args[1] = ThisExpression
              /\ emitted[f] = <<"call">>
         /\ astNodes[n].role = "bind" =>
              /\ astNodes[n].type = "CallExpression"
              /\ astNodes[n].args[1] = NullExpression
              /\ Len(astNodes[n].args) =
                   1 + Len(astNodes[n].argNames) + Len(instanceOf[f].scopeInstances)
              /\ \A k \in 1..Len(astNodes[n].argNames) :
                   astNodes[n].args[1 + k] =
                     instanceOf[f].residualFunctionBindings[astNodes[n].argNames[k]].serializedValue
              /\ emitted[f] = <<"bind">>

\* C14 witness: a completed run where one instance of a block is a .call wrapper only
\* because its first usage was recorded before its insertion point (a later usage was
\* recorded first), and every other instance of the block is a .bind expression.
C14_Witness ==
  /\ pc = "done"
  /\ \E f \in FV :
       /\ emitted[f] = <<"call">>
       /\ f \notin initializerStatements
       /\ f \notin functionPrototypes
       /\ ~residualFunctionInfos[instanceOf[f].code].usesThis
       /\ f \in DOMAIN firstFunctionUsages
       /\ \A g \in FV \ {f} : emitted[g] = <<"bind">>

\* C14 witness of the particular case: all instances of a block differ only in the
\* constant bound to their free variable and all are .bind expressions.
C14_AllBind ==
  /\ pc = "done"
  /\ \A f \in FV : emitted[f] = <<"bind">>


\* the factory function expressions of the output
FactoryNodes == {n \in 1..Len(astNodes) : astNodes[n].role = "factory"}

\* the normal instances of code block funcBody, in the order of this.functions
NormalInstancesOfBlock(funcBody) ==
  NormalInstancesOf(CHOOSE i \in 1..Len(functions) : functions[i].code = funcBody)

\* the names that factory node n takes as parameters for varying bindings
FactoryNamesOf(n) ==
  {astNodes[n].params[k].n : k \in {j \in 1..Len(astNodes[n].params) :
                                      astNodes[n].params[j].t = "param"}}

\* the bindings of name are the same in all the instances
SameInAllInstances(name, instances) ==
  \A x, y \in 1..Len(instances) :
    AreSameResidualBinding(instanceOf[instances[x]].residualFunctionBindings[name],
                           instanceOf[instances[y]].residualFunctionBindings[name])

\* C15 (as claimed): on the factory path an unbound name is a factory parameter exactly
\* when its bindings are not the same across all normal instances of the block;
\* otherwise it is folded into the factory body, and a folded name has the same
\* binding in every instance.
C15_SameVaryingPartition ==
  \A n \in FactoryNodes :
    LET funcBody == astNodes[n].code
        normalInstances == NormalInstancesOfBlock(funcBody)
    IN  \A name \in Range(residualFunctionInfos[funcBody].unbound) :
          /\ name \in FactoryNamesOf(n) <=> ~SameInAllInstances(name, normalInstances)
          /\ name \notin FactoryNamesOf(n) => SameInAllInstances(name, normalInstances)

\* C15 (amended): a name whose binding in the first normal instance is modified is
\* folded, with that binding, whatever the other instances hold; any other name is a
\* factory parameter exactly when some normal instance holds a binding that is not the
\* same as the first instance's, and is folded otherwise; a folded name is replaced in
\* the factory body by the first instance's binding.
C15_PartitionAgainstFirstInstance ==
  \A n \in FactoryNodes :
    LET funcBody == astNodes[n].code
        normalInstances == NormalInstancesOfBlock(funcBody)
        firstBindings == instanceOf[normalInstances[1]].residualFunctionBindings
    IN  \A name \in Range(residualFunctionInfos[funcBody].unbound) :
          /\ name \in FactoryNamesOf(n) <=>
               /\ ~firstBindings[name].modified
               /\ \E j \in 1..Len(normalInstances) :
                    ~AreSameResidualBinding(
                       instanceOf[normalInstances[j]].residualFunctionBindings[name],
                       firstBindings[name])
          /\ ~(name \in FactoryNamesOf(n) /\ name \in DOMAIN astNodes[n].replacements)
          /\ name \in DOMAIN astNodes[n].replacements =>
               /\ astNodes[n].bindingOwner[name] = normalInstances[1]
               /\ astNodes[n].replacements[name].node = firstBindings[name].serializedValue

\* C15 witness: a factory whose free variable is folded with the modified binding of
\* the first instance while another instance holds a different binding.
C15_Witness ==
  \E n \in FactoryNodes :
    LET normalInstances == NormalInstancesOfBlock(astNodes[n].code)
        firstBindings == instanceOf[normalInstances[1]].residualFunctionBindings
    IN  /\ pc = "done"
        /\ 1 \notin FactoryNamesOf(n)
        /\ 1 \in DOMAIN astNodes[n].replacements
        /\ firstBindings[1].modified
        /\ ~SameInAllInstances(1, normalInstances)


\* the positions of the parameters of kind t in the parameter list of node n
ParamPositions(n, t) == {k \in 1..Len(astNodes[n].params) : astNodes[n].params[k].t = t}

\* C16 (as claimed): in every factory function the parameters for the varying names
\* come after all referentialized-scope parameters and before the original formal
\* parameters.
C16_FactoryParamOrder ==
  \A n \in FactoryNodes :
    /\ \A i \in ParamPositions(n, "scopeName"), j \in ParamPositions(n, "param") : i < j
    /\ \A j \in ParamPositions(n, "param"), k \in ParamPositions(n, "formal") : j < k

\* C16 (amended): the parameters of every factory function are the varying names, in
\* the order of the block's unbound names, then one parameter per scope of the first
\* normal instance in scopeInstances order, then the original formal parameters.
C16_FactoryParamsNamesFirst ==
  \A n \in FactoryNodes :
    LET funcBody == astNodes[n].code
        first == instanceOf[NormalInstancesOfBlock(funcBody)[1]]
        unbound == residualFunctionInfos[funcBody].unbound
        factoryNames == SelectSeq(unbound, LAMBDA name : name \in FactoryNamesOf(n))
    IN  astNodes[n].params =
          [k \in 1..Len(factoryNames) |-> ParamName(factoryNames[k])]
          \o [k \in 1..Len(first.scopeInstances) |-> ScopeName(first.scopeInstances[k])]
          \o [k \in 1..Len(residualFunctionInfos[funcBody].params) |-> [t |-> "formal", n |-> k]]

\* C16 witness: a factory function with a parameter for a varying name and parameters
\* for two captured scopes.
C16_Witness ==
  \E n \in FactoryNodes :
    /\ pc = "done"
    /\ ParamPositions(n, "param") # {}
    /\ Cardinality(ParamPositions(n, "scopeName")) = 2

\* a factory function with parameters for two varying names, in the order of unbound
C16_TwoNames ==
  \E n \in FactoryNodes :
    /\ pc = "done"
    /\ residualFunctionInfos[astNodes[n].code].unbound = <<2, 1>>
    /\ Cardinality(ParamPositions(n, "param")) = 2


\* the statements of the body of function expression n after the run; the body of an
\* optimized root is the array of rewrittenAdditionalFunctions
FunctionBodyOf(n) ==
  IF astNodes[n].role = "root"
  THEN (CHOOSE e \in Range(rewrittenAdditionalFunctions) : e.fv = astNodes[n].fv).body
  ELSE astNodes[n].body

\* C17: after spliceFunctions has returned, the delayed-initializer statement of every
\* function value that has one and was defined as a function expression (naive clone,
\* .call wrapper, optimized root) is the first statement of the function's body and
\* occurs only there: scope initializations, the per-root prelude, the modified-bindings
\* segment and the original body come after it.
C17_DelayedInitializerFirst ==
  pc = "done" =>
    \A i \in 1..Len(funcNodes) :
      LET f == funcNodes[i].fv
          body == FunctionBodyOf(funcNodes[i].node)
      IN  /\ astNodes[funcNodes[i].node].type = "FunctionExpression"
          /\ f \in initializerStatements =>
               /\ Len(body) >= 2
               /\ body[1] = Stmt("InitializerStatement", Undefined, 0, f)
               /\ \A k \in 2..Len(body) : body[k].type # "InitializerStatement"
          /\ f \notin initializerStatements =>
               \A k \in 1..Len(body) : body[k].type # "InitializerStatement"

\* C17 witness: a naive clone that closes over two scopes and has a delayed initializer:
\* its body is the initializer, the two scope initializations, the original body.
C17_Witness ==
  /\ pc = "done"
  /\ \E i \in 1..Len(funcNodes) :
       LET n == funcNodes[i].node
       IN  /\ astNodes[n].role = "naive"
           /\ funcNodes[i].fv \in initializerStatements
           /\ Len(astNodes[n].body) = 4
           /\ astNodes[n].body[1].type = "InitializerStatement"
           /\ astNodes[n].body[2].type = "ScopeInitialization"
           /\ astNodes[n].body[3].type = "ScopeInitialization"
           /\ astNodes[n].body[4].type = "OriginalBody"

\* an optimized root with a delayed initializer, a per-root prelude and a
\* modified-bindings segment
C17_RootWitness ==
  /\ pc = "done"
  /\ \E i \in 1..Len(funcNodes) :
       LET n == funcNodes[i].node
           body == FunctionBodyOf(n)
       IN  /\ astNodes[n].role = "root"
           /\ funcNodes[i].fv \in initializerStatements
           /\ body[1].type = "InitializerStatement"
           /\ \E k \in 2..Len(body) : body[k].type = "CaptureScopeAccessFunction"
           /\ \E k \in 2..Len(body) : body[k].type = "ScopeInitialization"

\* a .call wrapper with a delayed initializer
C17_CallWitness ==
  /\ pc = "done"
  /\ \E i \in 1..Len(funcNodes) :
       /\ astNodes[funcNodes[i].node].role = "call"
       /\ funcNodes[i].fv \in initializerStatements
       /\ astNodes[funcNodes[i].node].body[1].type = "InitializerStatement"
       /\ astNodes[funcNodes[i].node].body[2].type = "ReturnStatement"


\* the function expressions and class methods emitted by naiveProcessInstances
NaiveNodes == {n \in 1..Len(astNodes) : astNodes[n].role = "naive"}

\* a body without the delayed-initializer statement that the last step of the run
\* puts in front of it
WithoutInitializer(body) ==
  IF body # <<>> /\ body[1].type = "InitializerStatement" THEN Tail(body) ELSE body

\* the body of node n is the scope initializations of the instance, one per captured
\* scope in scopeInstances order with the scope id as index, then the original body
StartsWithScopeInitialization(n) ==
  LET scopeInstances == instanceOf[astNodes[n].fv].scopeInstances
  IN  WithoutInitializer(astNodes[n].body) =
        [k \in 1..Len(scopeInstances) |->
           Stmt("ScopeInitialization", ScopeIdLiteral(scopeInstances[k]), 0, scopeInstances[k])]
        \o <<OriginalBody(astNodes[n].code)>>

\* C18 (as claimed): the body of every instance emitted by the naive path that closes
\* over a referentialized scope, plain function or class method, starts with the
\* scope-initialization statements, one per captured scope in scopeInstances order,
\* before any statement of the original body.
C18_NaiveScopeInitialization ==
  \A n \in NaiveNodes :
    instanceOf[astNodes[n].fv].scopeInstances # <<>> => StartsWithScopeInitialization(n)

\* C18, plain functions only: the claim holds for the function expressions
C18_NaiveScopeInitializationOfFunctions ==
  \A n \in NaiveNodes :
    (astNodes[n].type = "FunctionExpression"
     /\ instanceOf[astNodes[n].fv].scopeInstances # <<>>) => StartsWithScopeInitialization(n)

\* C18, class methods: no scope initialization is emitted for them
C18_NoScopeInitializationOfClassMethods ==
  \A n \in NaiveNodes :
    astNodes[n].type = "ClassMethod" => astNodes[n].body = <<OriginalBody(astNodes[n].code)>>


\* the class expressions of the output
ClassNodes == {n \in 1..Len(astNodes) : astNodes[n].type = "ClassExpression"}

\* the members of class node c that are constructors
ConstructorMembers(c) ==
  {k \in 1..Len(astNodes[c].body) :
     residualClassMethodInstances[astNodes[c].body[k].fv].methodType = "constructor"}

\* C20: there is exactly one class node per class prototype object that was looked up
\* (the same prototype yields the same node, distinct prototypes yield distinct nodes),
\* every emitted class method is a member of the node of its own class prototype and of
\* no other, and in a class with one constructor the constructor, if emitted, is the
\* first member while the other methods follow in the order in which they were
\* processed.
C20_SharedClassNode ==
  /\ \A p \in DOMAIN classes : classes[p] \in ClassNodes
  /\ \A p, q \in DOMAIN classes : p # q => classes[p] # classes[q]
  /\ Cardinality(ClassNodes) = Cardinality(DOMAIN classes)
  /\ \A m \in 1..Len(astNodes) :
       astNodes[m].type = "ClassMethod" =>
         LET p == residualClassMethodInstances[astNodes[m].fv].classPrototype
         IN  /\ p \in DOMAIN classes
             /\ \A c \in ClassNodes :
                  Cardinality({k \in 1..Len(astNodes[c].body) : astNodes[c].body[k].init = m})
                    = IF c = classes[p] THEN 1 ELSE 0
  /\ \A c \in ClassNodes :
       Cardinality(ConstructorMembers(c)) <= 1 =>
         /\ ConstructorMembers(c) \subseteq {1}
         /\ \A i, j \in 1..Len(astNodes[c].body) \ ConstructorMembers(c) :
              i < j => astNodes[c].body[i].init < astNodes[c].body[j].init

\* C20 witness: two class prototypes have each their own class node, and in one class
\* the constructor was processed after another method and is the first member.
C20_Witness ==
  /\ pc = "done"
  /\ Cardinality(ClassNodes) = 2
  /\ \E c \in ClassNodes :
       /\ Len(astNodes[c].body) >= 2
       /\ ConstructorMembers(c) = {1}
       /\ astNodes[c].body[1].init > astNodes[c].body[2].init

\* a class of three members: the constructor, processed last, then the two methods in
\* processing order
C20_ThreeMembers ==
  /\ pc = "done"
  /\ \E c \in ClassNodes :
       /\ Len(astNodes[c].body) = 3
       /\ ConstructorMembers(c) = {1}
       /\ astNodes[c].body[1].init > astNodes[c].body[3].init


\* the stubs (.call wrappers and .bind expressions) of the output
StubNodes == {n \in 1..Len(astNodes) : astNodes[n].role \in {"call", "bind"}}

\* the factory function that stub n calls: the node declared in the prelude under the
\* stub's callee identifier
FactoryOfStub(n) ==
  LET k == CHOOSE k \in FactoryDeclarations(astNodes[n].code) :
             prelude[k].id = astNodes[n].callee
  IN  prelude[k].init

\* the arguments of stub n after `this` or `null`
StubArgs(n) == Tail(astNodes[n].args)

\* argument k of stub n is what parameter k of its factory stands for
ArgumentMatchesParameter(n, k) ==
  LET f == astNodes[n].fv
      param == astNodes[FactoryOfStub(n)].params[k]
      arg == StubArgs(n)[k]
  IN  CASE param.t = "param" ->
             arg = instanceOf[f].residualFunctionBindings[param.n].serializedValue
        [] param.t = "scopeName" -> arg = ScopeIdLiteral(param.n)
        [] OTHER -> arg = param

\* the number of parameters of node n that are not original formal parameters
ParamsBeforeFormals(n) ==
  Cardinality(ParamPositions(n, "param") \cup ParamPositions(n, "scopeName"))

\* C21 (as claimed): the arguments every stub passes after `this` or `null` match the
\* parameter list of its factory position by position (serialized value of the i-th
\* varying name for the i-th varying parameter, the id of a captured scope for the
\* parameter of that scope, and in a .call wrapper the original formal parameters in
\* their order), and the number of arguments before the original parameters equals the
\* number of factory parameters before them.
C21_ParametersAndArgumentsLineUp ==
  \A n \in StubNodes :
    LET g == FactoryOfStub(n)
        before == ParamsBeforeFormals(g)
    IN  /\ Len(StubArgs(n)) =
             IF astNodes[n].role = "call" THEN Len(astNodes[g].params) ELSE before
        /\ \A k \in 1..Len(StubArgs(n)) : ArgumentMatchesParameter(n, k)

\* C21, the instances that capture the scopes of the first normal instance, in the
\* same order: their stubs line up with the factory
C21_LineUpWithScopesOfFirstInstance ==
  \A n \in StubNodes :
    LET g == FactoryOfStub(n)
        first == NormalInstancesOfBlock(astNodes[n].code)[1]
    IN  instanceOf[astNodes[n].fv].scopeInstances = instanceOf[first].scopeInstances =>
          /\ Len(StubArgs(n)) =
               IF astNodes[n].role = "call" THEN Len(astNodes[g].params)
               ELSE ParamsBeforeFormals(g)
          /\ \A k \in 1..Len(StubArgs(n)) : ArgumentMatchesParameter(n, k)


\* the declarations of factory functions in the prelude
FactoryDeclarationsInPrelude ==
  {k \in 1..Len(prelude) :
     /\ prelude[k].type = "VariableDeclaration"
     /\ prelude[k].init # 0
     /\ astNodes[prelude[k].init].role = "factory"}

\* the identifiers under which function instances are defined in the output
InstanceIdentifiers ==
  {Loc(f) : f \in {g \in FV : emitted[g] # <<>>}}

\* C22 (as claimed): whenever the factory path is taken for a code block, the
\* identifier under which the factory is declared in the prelude was produced by the
\* factory name generator and differs from the location identifier of every function
\* instance, so no identifier is declared both as a factory and as an instance.
C22_FactoryIdentifierFresh ==
  \A k \in FactoryDeclarationsInPrelude :
    /\ prelude[k].id.t = "factory"
    /\ \A f \in FV : prelude[k].id # Loc(f)
    /\ prelude[k].id \notin InstanceIdentifiers

\* C22, the blocks for which _generateFactoryFunctionInfos decided for a factory: a
\* factory declared under a generated name shares it with no function instance
C22_GeneratedNamesAreFresh ==
  \A k \in FactoryDeclarationsInPrelude :
    prelude[k].id.t = "factory" => prelude[k].id \notin InstanceIdentifiers

====
